---- MODULE Spec2Model ----
(***************************************************************************)
(* The chain notifier of lnd (bitcoind flavour): the notification          *)
(* dispatcher, its three registries (block epochs, spends, confirmations)  *)
(* and the callers that register, cancel and stop.  The backend is a       *)
(* block tree with two forks that part after ForkHeight.                   *)
(***************************************************************************)
EXTENDS Integers, Sequences, FiniteSets, TLC

\* ------------------------------------------------------------------ bounds
MaxHeight == 3          \* highest block of either fork
ForkHeight == 1         \* last height the two forks share
MaxEpochClients == 2    \* RegisterBlockEpochNtfn calls
MaxQueue == 4           \* epochs put into one subscriber's queue
MaxRpc == 4             \* a backend failure hits one of the first MaxRpc calls of a handler
MaxConfNtfns == 1       \* RegisterConfirmationsNtfn calls
MaxConfs == 2           \* largest numConfs registered
MaxSpendClients == 2    \* RegisterSpendNtfn calls
MaxCancelCalls == 2     \* Cancel calls of one subscriber
MaxOutPoints == 2       \* distinct outpoints watched
TipMaxHeight == 5       \* blocks above the start fed to the TxConfNotifier on its own
TipMaxConfs == 3        \* largest numConfs registered with the TxConfNotifier on its own
TipMaxOps == 10         \* calls made to the TxConfNotifier on its own
CatchUpHeight == 4      \* blocks the backend mines above the start in the catch-up runs

\* -------------------------------------------------------- program constants
reorgSafetyLimit == 100

VARIABLES
    chainTip,           \* backend: hash of the tip of its best chain
    ntfnTip,            \* backend: last block its notification stream announced
    blockTxs,           \* backend: the transactions of every block
    bestBlock,          \* b.bestBlock
    txConfNotifier,     \* b.txConfNotifier: heights and the three maps
    confNtfn,           \* the ConfNtfn of every RegisterConfirmationsNtfn call
    confEvent,          \* its ConfirmationEvent channels
    epochClientCounter, \* b.epochClientCounter
    blockEpochClients,  \* keys of b.blockEpochClients
    epochQueue,         \* per epochID: every epoch put into epochQueue.ChanIn()
    epochReg,           \* per epochID: cancelChan, epochChan, Cancel caller
    spendClientCounter, \* b.spendClientCounter
    spendNotifications, \* b.spendNotifications: outpoint -> set of spendIDs, or absent
    spendNtfn,          \* per spendID: target outpoint, spendChan, Cancel caller
    quit,               \* b.quit is closed
    dispatcher,         \* notificationDispatcher: "running", "exited", "panicked"
    stopped,            \* Stop: "no", "waiting" (wg.Wait), "done"
    last                \* what the last backend or dispatcher step did (history, read by the properties only)

vars == <<chainTip, ntfnTip, blockTxs, bestBlock, txConfNotifier, confNtfn,
          confEvent, epochClientCounter, blockEpochClients, epochQueue, epochReg,
          spendClientCounter, spendNotifications, spendNtfn, quit, dispatcher,
          stopped, last>>

\* ------------------------------------------------------------- block tree
\* A hash is (fork + 1) * 1000 + height; fork 0 is the shared prefix.
NilHash == 0
Height(hash) == hash % 1000
ForkOf(hash) == hash \div 1000 - 1
HashOf(fork, h) == IF h <= ForkHeight THEN 1000 + h ELSE (fork + 1) * 1000 + h
Forks == {1, 2}
Heights == 0..MaxHeight
Blocks == {HashOf(f, h) : f \in Forks, h \in Heights}
TxIds == {1}

\* wire.BlockHeader.PrevBlock
PrevBlock(hash) ==
    IF Height(hash) = 0 THEN NilHash ELSE HashOf(ForkOf(hash), Height(hash) - 1)

\* the block of tip's chain at height h (h <= Height(tip))
AncestorAt(tip, h) == HashOf(ForkOf(tip), h)
OnChain(hash, tip) ==
    /\ Height(hash) <= Height(tip)
    /\ AncestorAt(tip, Height(hash)) = hash

Epoch(h, hash) == [Height |-> h, Hash |-> hash]
EpochOf(hash) == Epoch(Height(hash), hash)

Range(f) == {f[i] : i \in DOMAIN f}
IndexOf(seq, x) == CHOOSE i \in DOMAIN seq : seq[i] = x /\ \A j \in 1..(i - 1) : seq[j] # x

\* ------------------------------------------------------ backend (chainConn)
\* GetBlockHash answers for the heights of the backend's best chain only.
HasBlockAt(h) == h >= 0 /\ h <= Height(chainTip)
GetBlockHash(h) == AncestorAt(chainTip, h)
\* GetBlock(hash).Transactions, as txids in block order
GetBlock(hash) == blockTxs[hash]

\* --------------------------------------------------------- TxConfNotifier
\* A ConfNtfn and where its transaction was seen (details).
NoConfNtfn ==
    [registered |-> FALSE, txid |-> 0, numConfs |-> 0, heightHint |-> 0,
     seen |-> FALSE, blockHash |-> NilHash, blockHeight |-> 0, txIndex |-> 0,
     reorged |-> FALSE,     \* reorged: was moved back to unseen (history)
     event |-> "none"]      \* what RegisterConfirmationsNtfn returned
ConfIds == 1..MaxConfNtfns
PerHeights ==
    0..(IF MaxHeight + MaxConfs > TipMaxHeight + TipMaxConfs
        THEN MaxHeight + MaxConfs ELSE TipMaxHeight + TipMaxConfs)
NoConfEvent == [confirmed |-> <<>>, updates |-> 0, closed |-> FALSE, closes |-> 0]
TxConfirmation(hash, height, index) ==
    [BlockHash |-> hash, BlockHeight |-> height, TxIndex |-> index]

NewTxConfNotifier(startHeight) ==
    [currentHeight |-> startHeight,
     ntfns |-> [t \in TxIds |-> {}],
     confNtfnsPerHeight |-> [h \in PerHeights |-> {}],
     txByInitialHeight |-> [h \in PerHeights |-> {}]]

TargetHeight(nt) == nt.blockHeight + nt.numConfs - 1
Tracked(tcn) == UNION {tcn.ntfns[t] : t \in TxIds}

\* Fire that leaves the registration in the maps
FireKeep(s, ids) ==
    [s EXCEPT
        !.ev = [r \in ConfIds |->
            IF r \in ids
            THEN [@[r] EXCEPT
                    !.confirmed = Append(@, TxConfirmation(s.ntfn[r].blockHash,
                                    s.ntfn[r].blockHeight, s.ntfn[r].txIndex)),
                    !.closed = TRUE, !.closes = @ + 1]
            ELSE @[r]]]

\* Send Confirmed on the one-shot, close both streams, remove from the maps.
Fire(s, ids) ==
    [s EXCEPT
        !.ev = [r \in ConfIds |->
            IF r \in ids
            THEN [@[r] EXCEPT
                    !.confirmed = Append(@, TxConfirmation(s.ntfn[r].blockHash,
                                    s.ntfn[r].blockHeight, s.ntfn[r].txIndex)),
                    !.closed = TRUE, !.closes = @ + 1]
            ELSE @[r]],
        !.tcn.ntfns = [t \in TxIds |-> @[t] \ ids],
        !.tcn.confNtfnsPerHeight = [h \in PerHeights |-> @[h] \ ids]]

\* The Updates tick of every registration still waiting for its target height.
Tick(s) ==
    [s EXCEPT !.ev = [r \in ConfIds |->
        IF /\ r \in Tracked(s.tcn)
           /\ s.ntfn[r].seen
           /\ TargetHeight(s.ntfn[r]) > s.tcn.currentHeight
        THEN [@[r] EXCEPT !.updates = TargetHeight(s.ntfn[r]) - s.tcn.currentHeight]
        ELSE @[r]]]

Prune(s) ==
    [s EXCEPT !.tcn.txByInitialHeight = [h \in PerHeights |->
        IF h + reorgSafetyLimit <= s.tcn.currentHeight THEN {} ELSE @[h]]]

\* connect_tip that takes a block at any height
ConnectTipAnyHeight(s, hash, height, txns) ==
      LET newlySeen == {r \in Tracked(s.tcn) :
                            ~s.ntfn[r].seen /\ s.ntfn[r].txid \in Range(txns)}
          ntfn1 == [r \in ConfIds |->
                      IF r \in newlySeen
                      THEN [s.ntfn[r] EXCEPT
                              !.seen = TRUE, !.blockHash = hash,
                              !.blockHeight = height,
                              !.txIndex = IndexOf(txns, s.ntfn[r].txid) - 1]
                      ELSE s.ntfn[r]]
          s1 == [s EXCEPT
                  !.ntfn = ntfn1,
                  !.tcn.currentHeight = height,
                  !.tcn.confNtfnsPerHeight = [h \in PerHeights |->
                      @[h] \cup {r \in newlySeen : TargetHeight(ntfn1[r]) = h}],
                  !.tcn.txByInitialHeight[height] =
                      @ \cup {ntfn1[r].txid : r \in newlySeen}]
      IN Prune(Tick(Fire([s1 EXCEPT !.tcnCalls = Append(@, <<"connect", height, hash>>)],
                         s1.tcn.confNtfnsPerHeight[height])))

\* connect_tip(block_hash, height, txns)
ConnectTip(s, hash, height, txns) ==
    IF height # s.tcn.currentHeight + 1
    THEN [s EXCEPT !.err = TRUE]
    ELSE
      LET newlySeen == {r \in Tracked(s.tcn) :
                            ~s.ntfn[r].seen /\ s.ntfn[r].txid \in Range(txns)}
          ntfn1 == [r \in ConfIds |->
                      IF r \in newlySeen
                      THEN [s.ntfn[r] EXCEPT
                              !.seen = TRUE, !.blockHash = hash,
                              !.blockHeight = height,
                              !.txIndex = IndexOf(txns, s.ntfn[r].txid) - 1]
                      ELSE s.ntfn[r]]
          s1 == [s EXCEPT
                  !.ntfn = ntfn1,
                  !.tcn.currentHeight = height,
                  !.tcn.confNtfnsPerHeight = [h \in PerHeights |->
                      @[h] \cup {r \in newlySeen : TargetHeight(ntfn1[r]) = h}],
                  !.tcn.txByInitialHeight[height] =
                      @ \cup {ntfn1[r].txid : r \in newlySeen}]
      IN Prune(Tick(Fire([s1 EXCEPT !.tcnCalls = Append(@, <<"connect", height, hash>>)],
                         s1.tcn.confNtfnsPerHeight[height])))

\* disconnect_tip that leaves the registrations queued for their old target
DisconnectTipKeep(s, height) ==
    IF height # s.tcn.currentHeight
    THEN [s EXCEPT !.err = TRUE]
    ELSE
      LET back == {r \in Tracked(s.tcn) :
                      /\ s.ntfn[r].txid \in s.tcn.txByInitialHeight[height]
                      /\ s.ntfn[r].seen
                      /\ s.ntfn[r].blockHeight = height}
      IN [s EXCEPT
            !.ntfn = [r \in ConfIds |->
                IF r \in back
                THEN [@[r] EXCEPT !.seen = FALSE, !.blockHash = NilHash,
                                  !.blockHeight = 0, !.txIndex = 0,
                                  !.reorged = TRUE]
                ELSE @[r]],
            !.tcnCalls = Append(@, <<"disconnect", height, NilHash>>),
            !.tcn.currentHeight = height - 1,
            !.tcn.txByInitialHeight[height] = {}]

\* disconnect_tip(height)
DisconnectTip(s, height) ==
    IF height # s.tcn.currentHeight
    THEN [s EXCEPT !.err = TRUE]
    ELSE
      LET back == {r \in Tracked(s.tcn) :
                      /\ s.ntfn[r].txid \in s.tcn.txByInitialHeight[height]
                      /\ s.ntfn[r].seen
                      /\ s.ntfn[r].blockHeight = height}
      IN [s EXCEPT
            !.ntfn = [r \in ConfIds |->
                IF r \in back
                THEN [@[r] EXCEPT !.seen = FALSE, !.blockHash = NilHash,
                                  !.blockHeight = 0, !.txIndex = 0,
                                  !.reorged = TRUE]
                ELSE @[r]],
            !.tcnCalls = Append(@, <<"disconnect", height, NilHash>>),
            !.tcn.currentHeight = height - 1,
            !.tcn.confNtfnsPerHeight = [h \in PerHeights |-> @[h] \ back],
            !.tcn.txByInitialHeight[height] = {}]

\* register(ntfn, already_confirmed); conf.found says whether one was given
Register(s, r, conf) ==
    IF ~conf.found
    THEN [s EXCEPT !.tcn.ntfns[s.ntfn[r].txid] = @ \cup {r}]
    ELSE
      LET nt == [s.ntfn[r] EXCEPT
                    !.seen = TRUE, !.blockHash = conf.BlockHash,
                    !.blockHeight = conf.BlockHeight, !.txIndex = conf.TxIndex]
          s1 == [s EXCEPT !.ntfn[r] = nt]
      IN IF s.tcn.currentHeight - nt.blockHeight + 1 >= nt.numConfs
         THEN Fire(s1, {r})
         ELSE Tick([s1 EXCEPT
                      !.tcn.ntfns[nt.txid] = @ \cup {r},
                      !.tcn.confNtfnsPerHeight[TargetHeight(nt)] = @ \cup {r},
                      !.tcn.txByInitialHeight[nt.blockHeight] = @ \cup {nt.txid}])

\* tear_down()
TearDown(ev, tcn) ==
    [r \in ConfIds |->
        IF r \in Tracked(tcn)
        THEN [ev[r] EXCEPT !.closed = TRUE, !.closes = @ + 1]
        ELSE ev[r]]

\* ------------------------------------------------- notificationDispatcher
\* The state a handler works on.  failAt numbers the backend call that fails
\* (0: none does); drop holds the <<epochID, height>> sends for which
\* notifyBlockEpochs's select takes the quit case (empty while quit is open);
\* tcnCalls lists the tip changes the TxConfNotifier accepted.
EpochIds == 1..MaxEpochClients
Work(failAt, drop) ==
    [best |-> bestBlock, tcn |-> txConfNotifier, ntfn |-> confNtfn,
     ev |-> confEvent, q |-> epochQueue, clients |-> blockEpochClients,
     er |-> epochReg, sn |-> spendNotifications, sp |-> spendNtfn,
     crash |-> "running", tcnCalls |-> <<>>, scanned |-> <<>>,
     drop |-> drop, n |-> 0, failAt |-> failAt, err |-> FALSE, ret |-> 0]

\* one more backend call was made; Failed says whether it was the failing one
Rpc(s) == [s EXCEPT !.n = @ + 1]
Failed(s) == s.n = s.failAt
Fail(s) == [s EXCEPT !.err = TRUE]

\* notifyBlockEpochs handing each epoch to the subscriber's relay directly,
\* without a queue in between: the send waits while an earlier epoch has
\* not been taken
notifyBlockEpochsNoQueue(s, newHeight, newSha) ==
    IF \E c \in s.clients : Len(s.q[c]) > Len(s.er[c].epochChan.buf)
    THEN [s EXCEPT !.crash = "blocked"]
    ELSE [s EXCEPT !.q = [c \in EpochIds |->
            IF c \in s.clients /\ <<c, newHeight>> \notin s.drop
            THEN Append(@[c], Epoch(newHeight, newSha))
            ELSE @[c]]]

notifyBlockEpochs(s, newHeight, newSha) ==
    [s EXCEPT !.q = [c \in EpochIds |->
        IF c \in s.clients /\ <<c, newHeight>> \notin s.drop
        THEN Append(@[c], Epoch(newHeight, newSha))
        ELSE @[c]]]

\* handleBlockConnected notifying the epoch clients whatever ConnectTip returns
handleBlockConnectedNotifyAnyway(s, height, hash) ==
    LET s1 == Rpc(s)
    IN IF Failed(s1)
       THEN Fail(s1)
       ELSE notifyBlockEpochs(ConnectTip(s1, hash, height, GetBlock(hash)), height, hash)

handleBlockConnected(s, height, hash) ==
    LET s1 == Rpc(s)    \* GetBlock
    IN IF Failed(s1)
       THEN Fail(s1)
       ELSE LET s2 == ConnectTip(s1, hash, height, GetBlock(hash))
            IN IF s2.err THEN s2 ELSE notifyBlockEpochs(s2, height, hash)

\* a walker that steps back once at most
getCommonBlockAncestorHeightOneBack(s, reorgHash, chainHash) ==
    LET s1 == Rpc(s)
    IN IF Failed(s1) THEN Fail(s1)
       ELSE [s1 EXCEPT !.ret = IF reorgHash # chainHash
                                THEN Height(chainHash) - 1 ELSE Height(chainHash)]

RECURSIVE getCommonBlockAncestorHeight(_, _, _)
getCommonBlockAncestorHeight(s, reorgHash, chainHash) ==
    CASE reorgHash = chainHash ->
            \* GetBlockHeaderVerbose(&chainHash)
            IF Failed(Rpc(s)) THEN Fail(Rpc(s))
            ELSE [Rpc(s) EXCEPT !.ret = Height(chainHash)]
      [] reorgHash # chainHash /\ Failed(Rpc(s)) ->
            Fail(Rpc(s))            \* GetBlockHeader(&reorgHash)
      [] reorgHash # chainHash /\ ~Failed(Rpc(s)) /\ Failed(Rpc(Rpc(s))) ->
            Fail(Rpc(Rpc(s)))       \* GetBlockHeader(&chainHash)
      [] OTHER ->
            getCommonBlockAncestorHeight(Rpc(Rpc(s)), PrevBlock(reorgHash),
                                         PrevBlock(chainHash))

\* for height := startingHeight; height < newHeight; height++
RECURSIVE catchUpLoop(_, _, _)
catchUpLoop(s, height, newHeight) ==
    IF height >= newHeight THEN s
    ELSE LET s1 == Rpc(s)     \* GetBlockHash(height)
         IN IF Failed(s1) \/ ~HasBlockAt(height) THEN Fail(s1)
            ELSE LET s2 == handleBlockConnected(s1, height, GetBlockHash(height))
                 IN IF s2.err THEN s2 ELSE catchUpLoop(s2, height + 1, newHeight)

catchUpOnMissedBlocks(s, newHeight) ==
    LET s1 == Rpc(s)          \* GetBlockHash(b.bestBlock.Height)
    IN IF Failed(s1) \/ ~HasBlockAt(s.best.Height) THEN Fail(s1)
       ELSE LET hashAtBestHeight == GetBlockHash(s.best.Height)
            IN IF s.best.Hash # NilHash /\ hashAtBestHeight # s.best.Hash
               THEN LET s2 == getCommonBlockAncestorHeight(s1, s.best.Hash,
                                                           hashAtBestHeight)
                    IN IF s2.err THEN s2
                       ELSE catchUpLoop(s2, s2.ret + 1, newHeight)
               ELSE catchUpLoop(s1, s.best.Height + 1, newHeight)

\* case chain.BlockConnected
OnBlockConnected(s, item) ==
    LET s1 == IF item.Height # s.best.Height + 1
              THEN catchUpOnMissedBlocks(s, item.Height)
              ELSE s
    IN IF s1.err THEN s1
       ELSE handleBlockConnected([s1 EXCEPT !.best = item], item.Height, item.Hash)

\* the BlockDisconnected case without its height test
OnBlockDisconnectedAnyHeight(s, item) ==
    LET s1 == Rpc(s)
        blockHash == IF Failed(s1) \/ ~HasBlockAt(item.Height - 1)
                     THEN NilHash
                     ELSE GetBlockHash(item.Height - 1)
    IN DisconnectTip([s1 EXCEPT !.best = Epoch(item.Height - 1, blockHash)],
                     item.Height)

\* case chain.BlockDisconnected
OnBlockDisconnected(s, item) ==
    IF item.Height # s.best.Height THEN s
    ELSE LET s1 == Rpc(s)     \* GetBlockHash(item.Height - 1)
             blockHash == IF Failed(s1) \/ ~HasBlockAt(item.Height - 1)
                          THEN NilHash
                          ELSE GetBlockHash(item.Height - 1)
         IN DisconnectTip([s1 EXCEPT !.best = Epoch(item.Height - 1, blockHash)],
                          item.Height)

\* catchUpClientLoop stopping one height short of bestBlock.Height
RECURSIVE catchUpClientLoopShort(_, _)
catchUpClientLoopShort(s, height) ==
    IF height >= s.best.Height THEN s
    ELSE LET s1 == Rpc(s)
         IN IF Failed(s1) \/ ~HasBlockAt(height) THEN Fail(s1)
            ELSE catchUpClientLoopShort(
                    notifyBlockEpochs(s1, height, GetBlockHash(height)), height + 1)

\* for height := startingHeight; height <= b.bestBlock.Height; height++
RECURSIVE catchUpClientLoop(_, _)
catchUpClientLoop(s, height) ==
    IF height > s.best.Height THEN s
    ELSE LET s1 == Rpc(s)     \* GetBlockHash(height)
         IN IF Failed(s1) \/ ~HasBlockAt(height) THEN Fail(s1)
            ELSE catchUpClientLoop(
                    notifyBlockEpochs(s1, height, GetBlockHash(height)), height + 1)

\* clientBest.given is FALSE for a nil bestBlock
catchUpClientOnBlocks(s, clientBest) ==
    IF ~clientBest.given THEN s
    ELSE
      LET s1 == Rpc(s)        \* GetBlockHash(bestBlock.Height)
      IN IF Failed(s1) \/ ~HasBlockAt(clientBest.Height) THEN Fail(s1)
         ELSE LET hashAtBestHeight == GetBlockHash(clientBest.Height)
              IN IF clientBest.Hash # NilHash /\ hashAtBestHeight # clientBest.Hash
                 THEN LET s2 == getCommonBlockAncestorHeight(s1, clientBest.Hash,
                                                             hashAtBestHeight)
                      IN IF s2.err THEN s2
                         ELSE catchUpClientLoop(s2, s2.ret + 1)
                 ELSE catchUpClientLoop(s1, clientBest.Height + 1)

\* case *blockEpochRegistration
OnEpochRegistration(s, epochID, clientBest) ==
    catchUpClientOnBlocks([s EXCEPT !.clients = @ \cup {epochID}], clientBest)

\* ------------------------------------------------ confirmation lookups
\* the block of the backend's best chain that holds txid, NilHash if none
TxBlock(txid) ==
    LET in == {b \in Blocks : OnChain(b, chainTip) /\ txid \in Range(blockTxs[b])}
    IN IF in = {} THEN NilHash ELSE CHOOSE b \in in : TRUE
NotFound == [found |-> FALSE, BlockHash |-> NilHash, BlockHeight |-> 0, TxIndex |-> 0]
Found(hash, height, txid) ==
    [found |-> TRUE, BlockHash |-> hash, BlockHeight |-> height,
     TxIndex |-> IndexOf(blockTxs[hash], txid) - 1]

\* The lookups leave their answer in s.ret; an error leaves NotFound, as the
\* dispatcher only logs it.  txindex says whether the backend indexes
\* transactions.
confDetailsFromTxIndex(s, txid, txindex) ==
    LET s1 == Rpc(s)          \* GetRawTransactionVerbose
    IN IF Failed(s1) THEN [Fail(s1) EXCEPT !.ret = NotFound]
       ELSE IF ~txindex \/ TxBlock(txid) = NilHash THEN [s1 EXCEPT !.ret = NotFound]
       ELSE LET s2 == Rpc(s1) \* GetBlockVerbose
            IN IF Failed(s2) THEN [Fail(s2) EXCEPT !.ret = NotFound]
               ELSE [s2 EXCEPT !.ret = Found(TxBlock(txid), Height(TxBlock(txid)), txid)]

\* for height := heightHint; height <= currentHeight; height++
RECURSIVE confDetailsManually(_, _, _, _)
confDetailsManually(s, txid, height, currentHeight) ==
    IF height > currentHeight THEN [s EXCEPT !.ret = NotFound]
    ELSE LET s1 == Rpc(s)     \* GetBlockHash(height)
             s2 == [Rpc(s1) EXCEPT !.scanned = Append(@, height)]   \* GetBlockVerbose(blockHash)
         IN IF Failed(s1) \/ ~HasBlockAt(height) THEN [Fail(s1) EXCEPT !.ret = NotFound]
            ELSE IF Failed(s2) THEN [Fail(s2) EXCEPT !.ret = NotFound]
            ELSE IF txid \in Range(blockTxs[GetBlockHash(height)])
                 THEN [s2 EXCEPT !.ret = Found(GetBlockHash(height), height, txid)]
                 ELSE confDetailsManually(s2, txid, height + 1, currentHeight)

\* historicalConfDetails without the fallback to the manual scan
historicalConfDetailsNoFallback(s, txid, heightHint, currentHeight, txindex) ==
    confDetailsFromTxIndex(s, txid, txindex)

historicalConfDetails(s, txid, heightHint, currentHeight, txindex) ==
    LET s1 == confDetailsFromTxIndex(s, txid, txindex)
    IN IF s1.err \/ s1.ret.found THEN s1
       ELSE confDetailsManually(s1, txid, heightHint, currentHeight)

\* case *confirmationNotification: every error is logged, the registration
\* goes on with what it has
OnConfRegistration(s, r, txindex) ==
    LET s1 == Rpc(s)          \* GetBestBlock
        currentHeight == IF Failed(s1) THEN 0 ELSE Height(chainTip)
        s2 == historicalConfDetails(s1, s.ntfn[r].txid, s.ntfn[r].heightHint,
                                    currentHeight, txindex)
    IN [Register([s2 EXCEPT !.err = FALSE], r, s2.ret) EXCEPT !.ret = 0]

\* ------------------------------------------------------------- channels
\* A channel: the values sent on it, and how often it was closed.
NewChan == [buf |-> <<>>, closes |-> 0]
IsClosed(ch) == ch.closes > 0

\* close(ch): closing a closed channel panics
CloseChan(s, ch) == IF IsClosed(ch) THEN "panicked" ELSE s.crash

\* ---------------------------------------------------- spend notifications
OutPoints == 1..MaxOutPoints
SpendIds == 1..MaxSpendClients
NoSpendNtfn ==
    [targetOutpoint |-> 0, spendChan |-> NewChan, event |-> "none",
     cancel |-> "idle", calls |-> 0, via |-> "none", lenAtReturn |-> 0]
NoSpendClients == [present |-> FALSE, ids |-> {}]

SpendDetail(prevOut, tx, i, height) ==
    [SpentOutPoint |-> prevOut, SpendingTx |-> tx.inputs,
     SpenderInputIndex |-> i, SpendingHeight |-> height]

\* dispatchSpend that sends and leaves the channel open
RECURSIVE dispatchSpendNoClose(_, _, _)
dispatchSpendNoClose(s, ids, details) ==
    IF ids = {} \/ s.crash # "running" THEN s
    ELSE LET id == CHOOSE i \in ids : \A j \in ids : i <= j
             ch == s.sp[id].spendChan
         IN IF IsClosed(ch) THEN [s EXCEPT !.crash = "panicked"]
            ELSE IF Len(ch.buf) >= 1 THEN [s EXCEPT !.crash = "blocked"]
            ELSE dispatchSpendNoClose(
                    [s EXCEPT !.sp[id].spendChan.buf = Append(ch.buf, details)],
                    ids \ {id}, details)

\* for _, ntfn := range clients: send the details, close the channel.
\* The channel holds one value: a send on a full channel blocks the
\* dispatcher, a send on a closed one panics.
RECURSIVE dispatchSpend(_, _, _)
dispatchSpend(s, ids, details) ==
    IF ids = {} \/ s.crash # "running" THEN s
    ELSE LET id == CHOOSE i \in ids : \A j \in ids : i <= j
             ch == s.sp[id].spendChan
         IN IF IsClosed(ch) THEN [s EXCEPT !.crash = "panicked"]
            ELSE IF Len(ch.buf) >= 1 THEN [s EXCEPT !.crash = "blocked"]
            ELSE dispatchSpend(
                    [s EXCEPT !.sp[id].spendChan =
                        [buf |-> Append(ch.buf, details), closes |-> 1]],
                    ids \ {id}, details)

\* handleRelevantTx that leaves the outpoint in the registry
RECURSIVE handleInputsKeep(_, _, _, _)
handleInputsKeep(s, tx, bestHeight, i) ==
    IF i > Len(tx.inputs) \/ s.crash # "running" THEN s
    ELSE LET prevOut == tx.inputs[i]
         IN IF s.sn[prevOut].present
            THEN LET details == SpendDetail(prevOut, tx, i - 1,
                                    IF tx.block # 0 THEN tx.block ELSE bestHeight + 1)
                     s1 == dispatchSpend(s, s.sn[prevOut].ids, details)
                 IN IF s1.crash # "running" THEN s1
                    ELSE handleInputsKeep(s1, tx, bestHeight, i + 1)
            ELSE handleInputsKeep(s, tx, bestHeight, i + 1)

\* handleRelevantTx that takes every spend for a mempool spend
RECURSIVE handleInputsBestHeight(_, _, _, _)
handleInputsBestHeight(s, tx, bestHeight, i) ==
    IF i > Len(tx.inputs) \/ s.crash # "running" THEN s
    ELSE LET prevOut == tx.inputs[i]
         IN IF s.sn[prevOut].present
            THEN LET details == SpendDetail(prevOut, tx, i - 1,
                                    bestHeight + 1)
                     s1 == dispatchSpend(s, s.sn[prevOut].ids, details)
                 IN IF s1.crash # "running" THEN s1
                    ELSE handleInputsBestHeight([s1 EXCEPT !.sn[prevOut] = NoSpendClients],
                                      tx, bestHeight, i + 1)
            ELSE handleInputsBestHeight(s, tx, bestHeight, i + 1)

\* handleRelevantTx(tx, bestHeight); tx.block is 0 for a mempool transaction
RECURSIVE handleInputs(_, _, _, _)
handleInputs(s, tx, bestHeight, i) ==
    IF i > Len(tx.inputs) \/ s.crash # "running" THEN s
    ELSE LET prevOut == tx.inputs[i]
         IN IF s.sn[prevOut].present
            THEN LET details == SpendDetail(prevOut, tx, i - 1,
                                    IF tx.block # 0 THEN tx.block ELSE bestHeight + 1)
                     s1 == dispatchSpend(s, s.sn[prevOut].ids, details)
                 IN IF s1.crash # "running" THEN s1
                    ELSE handleInputs([s1 EXCEPT !.sn[prevOut] = NoSpendClients],
                                      tx, bestHeight, i + 1)
            ELSE handleInputs(s, tx, bestHeight, i + 1)

handleRelevantTx(s, tx, bestHeight) == handleInputs(s, tx, bestHeight, 1)

\* case *spendNotification
OnSpendRegistration(s, id, op) ==
    [s EXCEPT !.sn[op] = [present |-> TRUE, ids |-> @.ids \cup {id}]]

\* the rescan loop that does not stop at the block that spends the outpoint
\* and submits the RelevantTx with the last block it fetched
RECURSIVE spendRescanLoopNoBreak(_, _, _, _, _)
spendRescanLoopNoBreak(s, op, i, endHeight, in) ==
    IF i > endHeight
    THEN IF in.spentAt \in Range(s.scanned) /\ ~in.viaQuit
         THEN [handleRelevantTx(s, [inputs |-> <<op>>, block |-> endHeight],
                                s.best.Height)
                    EXCEPT !.ret = "handle"]
         ELSE [s EXCEPT !.ret = "handle"]
    ELSE LET s1 == Rpc(s)
             s2 == [Rpc(s1) EXCEPT !.scanned = Append(@, i)]
         IN IF Failed(s1) \/ ~HasBlockAt(i) THEN [Fail(s1) EXCEPT !.ret = "error"]
            ELSE IF Failed(s2) THEN [Fail(Rpc(s1)) EXCEPT !.ret = "error"]
            ELSE spendRescanLoopNoBreak(s2, op, i + 1, endHeight, in)

\* RegisterSpendNtfn after the dispatcher took the registration: what the
\* caller gets back is left in s.ret ("handle", "error", "shutdown").  in
\* holds the backend's answers: unspent (GetTxOut finds the output), txindex
\* (GetRawTransactionVerbose names the block of the outpoint's transaction,
\* which is at height createdAt), spentAt (the height of the block that holds
\* the spending transaction, 0 if none does), viaQuit (the select that
\* submits the rescan's RelevantTx takes its quit case).
RECURSIVE spendRescanLoop(_, _, _, _, _)
spendRescanLoop(s, op, i, endHeight, in) ==
    IF i > endHeight THEN [s EXCEPT !.ret = "handle"]
    ELSE LET s1 == Rpc(s)     \* GetBlockHash(i)
             s2 == [Rpc(s1) EXCEPT !.scanned = Append(@, i)]    \* GetBlock(blockHash)
         IN IF Failed(s1) \/ ~HasBlockAt(i) THEN [Fail(s1) EXCEPT !.ret = "error"]
            ELSE IF Failed(s2) THEN [Fail(Rpc(s1)) EXCEPT !.ret = "error"]
            ELSE IF i = in.spentAt
                 THEN IF in.viaQuit
                      THEN [s2 EXCEPT !.ret = "shutdown"]
                      ELSE [handleRelevantTx(s2, [inputs |-> <<op>>, block |-> i],
                                             s2.best.Height)
                                EXCEPT !.ret = "handle"]
                 ELSE spendRescanLoop(s2, op, i + 1, endHeight, in)

spendRescanFrom(s, op, startHeight, in) ==
    LET s1 == Rpc(s)          \* GetBlockHeight(blockHash)
        s2 == Rpc(s1)         \* GetBestBlock
    IN IF Failed(s1) THEN [Fail(s1) EXCEPT !.ret = "error"]
       ELSE IF Failed(s2) THEN [Fail(s2) EXCEPT !.ret = "error"]
       ELSE spendRescanLoop(s2, op, startHeight, Height(chainTip), in)

\* RegisterSpendNtfn's calls with the rescan always started at heightHint
spendRegisteredFromHint(s, op, heightHint, in) ==
    LET s1 == Rpc(s)
        s2 == Rpc(s1)
        s3 == Rpc(s2)
        s4 == Rpc(s3)
    IN IF Failed(s1) THEN [Fail(s1) EXCEPT !.ret = "error"]
       ELSE IF Failed(s2) THEN [Fail(s2) EXCEPT !.ret = "error"]
       ELSE IF in.unspent THEN [s2 EXCEPT !.ret = "handle"]
       ELSE IF Failed(s3) THEN [Fail(s3) EXCEPT !.ret = "error"]
       ELSE IF Failed(s4) \/ ~HasBlockAt(heightHint)
            THEN [Fail(s4) EXCEPT !.ret = "error"]
            ELSE spendRescanFrom(s4, op, heightHint, in)

spendRegistered(s, op, heightHint, in) ==
    LET s1 == Rpc(s)          \* NotifySpent
        s2 == Rpc(s1)         \* GetTxOut
        s3 == Rpc(s2)         \* GetRawTransactionVerbose
        s4 == Rpc(s3)         \* GetBlockHash(heightHint)
    IN IF Failed(s1) THEN [Fail(s1) EXCEPT !.ret = "error"]
       ELSE IF Failed(s2) THEN [Fail(s2) EXCEPT !.ret = "error"]
       ELSE IF in.unspent THEN [s2 EXCEPT !.ret = "handle"]
       ELSE IF Failed(s3) THEN [Fail(s3) EXCEPT !.ret = "error"]
       ELSE IF in.txindex THEN spendRescanFrom(s3, op, in.createdAt, in)
       ELSE IF Failed(s4) \/ ~HasBlockAt(heightHint)
            THEN [Fail(s4) EXCEPT !.ret = "error"]
            ELSE spendRescanFrom(s4, op, heightHint, in)

\* the spendCancel case dropping every subscriber of the outpoint
OnSpendCancelWholeOutpoint(s, id, op) ==
    IF s.sn[op].present
    THEN IF id \notin s.sn[op].ids
         THEN [s EXCEPT !.crash = "panicked"]
         ELSE [s EXCEPT
                !.crash = CloseChan(s, s.sp[id].spendChan),
                !.sp[id].spendChan.closes = @ + 1,
                !.sn[op] = NoSpendClients]
    ELSE s

\* case *spendCancel: outPointClients[msg.spendID] is nil for an id that is
\* not in the outpoint's map, and reading its spendChan panics
OnSpendCancel(s, id, op) ==
    IF s.sn[op].present
    THEN IF id \notin s.sn[op].ids
         THEN [s EXCEPT !.crash = "panicked"]
         ELSE [s EXCEPT
                !.crash = CloseChan(s, s.sp[id].spendChan),
                !.sp[id].spendChan.closes = @ + 1,
                !.sn[op].ids = @ \ {id}]
    ELSE s

\* the epochCancel case without its wg.Wait(): the relay goroutine goes on
OnEpochCancelNoWait(s, id) ==
    IF id \notin s.clients
    THEN [s EXCEPT !.crash = "panicked"]
    ELSE [s EXCEPT
            !.crash = IF IsClosed(s.er[id].cancelChan)
                      THEN "panicked"
                      ELSE CloseChan(s, s.er[id].epochChan),
            !.er[id].cancelChan.closes = @ + 1,
            !.er[id].epochChan.closes = @ + 1,
            !.clients = @ \ {id}]

\* case *epochCancel: the registration is looked up without a check, and
\* reg.epochQueue is read through a nil reg for an unknown epochID
OnEpochCancel(s, id) ==
    IF id \notin s.clients
    THEN [s EXCEPT !.crash = "panicked"]
    ELSE [s EXCEPT
            !.crash = IF IsClosed(s.er[id].cancelChan)
                      THEN "panicked"
                      ELSE CloseChan(s, s.er[id].epochChan),
            !.er[id].cancelChan.closes = @ + 1,
            !.er[id].relay = "exited",
            !.er[id].epochChan.closes = @ + 1,
            !.clients = @ \ {id}]

\* ----------------------------------------------------------------- state
NoEpochReg ==
    [epochChan |-> NewChan, cancelChan |-> NewChan, relay |-> "none",
     event |-> "none", cancel |-> "idle", calls |-> 0, via |-> "none",
     lenAtReturn |-> 0]
NoBest == [given |-> FALSE, Height |-> 0, Hash |-> NilHash]
ClientBest(hash) == [given |-> TRUE, Height |-> Height(hash), Hash |-> hash]

\* the epochs a handler put into each subscriber's queue
Sent(s) ==
    [c \in EpochIds |-> SubSeq(s.q[c], Len(epochQueue[c]) + 1, Len(s.q[c]))]

\* what a step did
Did(op, id, item, s) ==
    [op |-> op, id |-> id, item |-> item,
     failed |-> s.failAt # 0 /\ s.n >= s.failAt, err |-> s.err,
     best0 |-> bestBlock, sent |-> Sent(s), tcnCalls |-> s.tcnCalls]
Quiet(op) ==
    [op |-> op, id |-> 0, item |-> NoBest, failed |-> FALSE, err |-> FALSE,
     best0 |-> bestBlock, sent |-> [c \in EpochIds |-> <<>>], tcnCalls |-> <<>>]

backendVars == <<chainTip, ntfnTip, blockTxs>>
notifierVars ==
    <<bestBlock, txConfNotifier, confNtfn, confEvent, blockEpochClients,
      epochQueue, epochReg, spendNotifications, spendNtfn, dispatcher>>
counterVars == <<epochClientCounter, spendClientCounter>>
dispatcherVars == <<bestBlock, txConfNotifier, confNtfn, confEvent,
                    blockEpochClients, epochQueue>>

\* Start: bestBlock and the TxConfNotifier start at the backend's best block
InitNotifier ==
    /\ bestBlock = EpochOf(chainTip)
    /\ txConfNotifier = NewTxConfNotifier(Height(chainTip))
    /\ confNtfn = [r \in ConfIds |-> NoConfNtfn]
    /\ confEvent = [r \in ConfIds |-> NoConfEvent]
    /\ blockEpochClients = {}
    /\ epochQueue = [c \in EpochIds |-> <<>>]
    /\ epochReg = [c \in EpochIds |-> NoEpochReg]
    /\ spendNotifications = [o \in OutPoints |-> NoSpendClients]
    /\ spendNtfn = [i \in SpendIds |-> NoSpendNtfn]
    /\ quit = FALSE
    /\ dispatcher = "running"
    /\ stopped = "no"
    /\ last = Quiet("Start")

\* The notifier is started while the backend is at its first block.
Init ==
    /\ chainTip = HashOf(1, 0)
    /\ ntfnTip = chainTip
    /\ blockTxs = [b \in Blocks |-> <<>>]
    /\ InitNotifier
    /\ epochClientCounter = 0
    /\ spendClientCounter = 0

\* what a handler leaves behind
Commit(s) ==
    /\ \A c \in EpochIds : Len(s.q[c]) <= MaxQueue
    /\ bestBlock' = s.best
    /\ txConfNotifier' = s.tcn
    /\ confNtfn' = s.ntfn
    /\ confEvent' = s.ev
    /\ epochQueue' = s.q
    /\ blockEpochClients' = s.clients
    /\ epochReg' = s.er
    /\ spendNotifications' = s.sn
    /\ spendNtfn' = s.sp
    /\ dispatcher' = s.crash

\* While quit is closed, each send of notifyBlockEpochs may take the quit
\* case instead: the sends (of the handler run without drops) that do.
Drops(s) ==
    IF quit
    THEN SUBSET UNION {{<<c, Sent(s)[c][i].Height>> : i \in 1..Len(Sent(s)[c])} :
                            c \in EpochIds}
    ELSE {{}}

\* ------------------------------------------------------- backend's steps
\* the backend's best chain grows by one block
BackendMine ==
    /\ Height(chainTip) < MaxHeight
    /\ \E f \in Forks :
        /\ Height(chainTip) > ForkHeight => f = ForkOf(chainTip)
        /\ chainTip' = HashOf(f, Height(chainTip) + 1)
    /\ last' = Quiet("BackendMine")
    /\ UNCHANGED <<ntfnTip, blockTxs, notifierVars, counterVars, quit, stopped>>

\* the backend switches to a longer chain of the other fork
BackendReorg ==
    /\ \E b \in Blocks :
        /\ Height(b) > Height(chainTip)
        /\ ~OnChain(chainTip, b)
        /\ chainTip' = b
    /\ last' = Quiet("BackendReorg")
    /\ UNCHANGED <<ntfnTip, blockTxs, notifierVars, counterVars, quit, stopped>>

\* The notification stream follows the best chain: it disconnects the blocks
\* it announced that left the chain, then connects the next block.
NextIsConnect == OnChain(ntfnTip, chainTip) /\ ntfnTip # chainTip
NextIsDisconnect == ~OnChain(ntfnTip, chainTip)
NextConnected == AncestorAt(chainTip, Height(ntfnTip) + 1)

\* a notification the notifier never gets
MissedNtfn ==
    /\ \/ NextIsConnect /\ ntfnTip' = NextConnected
       \/ NextIsDisconnect /\ ntfnTip' = PrevBlock(ntfnTip)
    /\ last' = Quiet("MissedNtfn")
    /\ UNCHANGED <<chainTip, blockTxs, notifierVars, counterVars, quit, stopped>>

\* ----------------------------------------------------- dispatcher's steps
\* case ntfn := <-b.chainConn.Notifications(): chain.BlockConnected
BlockConnected ==
    /\ dispatcher = "running"
    /\ NextIsConnect
    /\ ntfnTip' = NextConnected
    /\ \E failAt \in 0..MaxRpc :
        \E drop \in Drops(OnBlockConnected(Work(failAt, {}), EpochOf(NextConnected))) :
            LET s == OnBlockConnected(Work(failAt, drop), EpochOf(NextConnected))
            IN /\ Commit(s)
               /\ last' = Did("BlockConnected", 0, ClientBest(NextConnected), s)
    /\ UNCHANGED <<chainTip, blockTxs, counterVars, quit, stopped>>

\* case ntfn := <-b.chainConn.Notifications(): chain.BlockDisconnected
BlockDisconnected ==
    /\ dispatcher = "running"
    /\ NextIsDisconnect
    /\ ntfnTip' = PrevBlock(ntfnTip)
    /\ \E failAt \in 0..MaxRpc :
        LET s == OnBlockDisconnected(Work(failAt, {}), EpochOf(ntfnTip))
        IN /\ Commit(s)
           /\ last' = Did("BlockDisconnected", 0, ClientBest(ntfnTip), s)
    /\ UNCHANGED <<chainTip, blockTxs, counterVars, quit, stopped>>

\* RegisterBlockEpochNtfn(bestBlock), the registration taken by the dispatcher
RegisterBlockEpochNtfn ==
    /\ dispatcher = "running"
    /\ epochClientCounter < MaxEpochClients
    /\ epochClientCounter' = epochClientCounter + 1
    /\ \E clientBest \in {NoBest} \cup {ClientBest(b) : b \in Blocks},
          failAt \in 0..MaxRpc :
        LET id == epochClientCounter + 1
            w(drop) == [Work(failAt, drop) EXCEPT !.er[id].event = "held",
                                                  !.er[id].relay = "running"]
        IN \E drop \in Drops(OnEpochRegistration(w({}), id, clientBest)) :
            LET s == OnEpochRegistration(w(drop), id, clientBest)
            IN /\ Commit(s)
               /\ last' = Did("RegisterBlockEpochNtfn", id, clientBest, s)
    /\ UNCHANGED <<backendVars, spendClientCounter, quit, stopped>>

\* RegisterBlockEpochNtfn when its select takes the quit case
RegisterBlockEpochNtfnQuit ==
    /\ quit
    /\ dispatcher # "panicked"
    /\ epochClientCounter < MaxEpochClients
    /\ epochClientCounter' = epochClientCounter + 1
    /\ epochReg' = [epochReg EXCEPT
            ![epochClientCounter + 1].event = "shutdown",
            ![epochClientCounter + 1].relay = "running"]
    /\ last' = Quiet("RegisterBlockEpochNtfnQuit")
    /\ UNCHANGED <<backendVars, dispatcherVars, spendNotifications, spendNtfn,
                   dispatcher, spendClientCounter, quit, stopped>>

\* ------------------------------------------------------------------ Stop
\* Stop: chainConn.Stop(), close(b.quit), then b.wg.Wait()
StopBegin ==
    /\ stopped = "no"
    /\ dispatcher # "panicked"
    /\ quit' = TRUE
    /\ stopped' = "waiting"
    /\ last' = Quiet("StopBegin")
    /\ UNCHANGED <<backendVars, notifierVars, counterVars>>

\* case <-b.quit: break out
DispatcherExit ==
    /\ dispatcher = "running"
    /\ quit
    /\ dispatcher' = "exited"
    /\ last' = Quiet("DispatcherExit")
    /\ UNCHANGED <<backendVars, bestBlock, txConfNotifier, confNtfn, confEvent,
                   blockEpochClients, epochQueue, epochReg, spendNotifications,
                   spendNtfn, counterVars, quit, stopped>>

\* Stop that does not wait for the dispatcher: no b.wg.Wait()
StopFinishNoWait ==
    /\ stopped = "waiting"
    /\ dispatcher # "panicked"
    /\ stopped' = "done"
    /\ spendNtfn' = [i \in SpendIds |->
            IF \E o \in OutPoints :
                    spendNotifications[o].present /\ i \in spendNotifications[o].ids
            THEN [spendNtfn[i] EXCEPT !.spendChan.closes = @ + 1]
            ELSE spendNtfn[i]]
    /\ epochReg' = [c \in EpochIds |->
            IF c \in blockEpochClients
            THEN [epochReg[c] EXCEPT !.cancelChan.closes = @ + 1,
                                     !.relay = "exited",
                                     !.epochChan.closes = @ + 1]
            ELSE epochReg[c]]
    /\ confEvent' = TearDown(confEvent, txConfNotifier)
    /\ last' = Quiet("StopFinish")
    /\ UNCHANGED <<backendVars, bestBlock, txConfNotifier, confNtfn,
                   blockEpochClients, epochQueue, spendNotifications, dispatcher,
                   counterVars, quit>>

\* Stop that leaves the epoch subscribers alone
StopFinishSpendOnly ==
    /\ stopped = "waiting"
    /\ dispatcher = "exited"
    /\ stopped' = "done"
    /\ spendNtfn' = [i \in SpendIds |->
            IF \E o \in OutPoints :
                    spendNotifications[o].present /\ i \in spendNotifications[o].ids
            THEN [spendNtfn[i] EXCEPT !.spendChan.closes = @ + 1]
            ELSE spendNtfn[i]]
    /\ epochReg' = [c \in EpochIds |->
            IF c \in blockEpochClients /\ c \notin EpochIds
            THEN [epochReg[c] EXCEPT !.cancelChan.closes = @ + 1,
                                     !.relay = "exited",
                                     !.epochChan.closes = @ + 1]
            ELSE epochReg[c]]
    /\ confEvent' = TearDown(confEvent, txConfNotifier)
    /\ last' = Quiet("StopFinish")
    /\ UNCHANGED <<backendVars, bestBlock, txConfNotifier, confNtfn,
                   blockEpochClients, epochQueue, spendNotifications, dispatcher,
                   counterVars, quit>>

\* Stop after b.wg.Wait(): close every spendChan and epochChan still
\* registered, tear the TxConfNotifier down
StopFinish ==
    /\ stopped = "waiting"
    /\ dispatcher = "exited"
    /\ stopped' = "done"
    /\ spendNtfn' = [i \in SpendIds |->
            IF \E o \in OutPoints :
                    spendNotifications[o].present /\ i \in spendNotifications[o].ids
            THEN [spendNtfn[i] EXCEPT !.spendChan.closes = @ + 1]
            ELSE spendNtfn[i]]
    /\ epochReg' = [c \in EpochIds |->
            IF c \in blockEpochClients
            THEN [epochReg[c] EXCEPT !.cancelChan.closes = @ + 1,
                                     !.relay = "exited",
                                     !.epochChan.closes = @ + 1]
            ELSE epochReg[c]]
    /\ confEvent' = TearDown(confEvent, txConfNotifier)
    /\ last' = Quiet("StopFinish")
    /\ UNCHANGED <<backendVars, bestBlock, txConfNotifier, confNtfn,
                   blockEpochClients, epochQueue, spendNotifications, dispatcher,
                   counterVars, quit>>

\* ------------------------------------------------- spend subscriptions

\* tx.Block of a RelevantTx: nil (not given) for a mempool transaction
TxBlockMeta(block) == [given |-> block # 0, Height |-> block, Hash |-> NilHash]

\* what the backend may answer to the calls of one RegisterSpendNtfn
SpendAnswers ==
    {[unspent |-> TRUE, txindex |-> FALSE, createdAt |-> 0, spentAt |-> 0,
      viaQuit |-> FALSE]}
    \cup {[unspent |-> FALSE, txindex |-> x, createdAt |-> c, spentAt |-> a,
           viaQuit |-> v] :
            x \in BOOLEAN, c \in 1..Height(chainTip),
            a \in 0..Height(chainTip), v \in {FALSE, quit}}

\* RegisterSpendNtfn, the registration taken by the dispatcher, and the
\* backend calls the caller makes before it returns
RegisterSpendNtfn ==
    /\ dispatcher = "running"
    /\ spendClientCounter < MaxSpendClients
    /\ spendClientCounter' = spendClientCounter + 1
    /\ \E op \in OutPoints, heightHint \in 1..MaxHeight, in \in SpendAnswers,
          failAt \in 0..MaxRpc :
        LET id == spendClientCounter + 1
            w == [Work(failAt, {}) EXCEPT !.sp[id].targetOutpoint = op]
            s1 == spendRegistered(OnSpendRegistration(w, id, op), op, heightHint, in)
            s == [s1 EXCEPT !.sp[id].event = IF s1.ret = "handle" THEN "held" ELSE s1.ret]
        IN /\ Commit(s)
           /\ last' = Did("RegisterSpendNtfn", id,
                          IF s.sp[id].spendChan.buf # <<>>
                          THEN TxBlockMeta(in.spentAt) ELSE NoBest, s)
    /\ UNCHANGED <<backendVars, epochClientCounter, quit, stopped>>

\* RegisterSpendNtfn when its select takes the quit case
RegisterSpendNtfnQuit ==
    /\ quit
    /\ dispatcher # "panicked"
    /\ spendClientCounter < MaxSpendClients
    /\ spendClientCounter' = spendClientCounter + 1
    /\ spendNtfn' = [spendNtfn EXCEPT ![spendClientCounter + 1].event = "shutdown"]
    /\ last' = Quiet("RegisterSpendNtfnQuit")
    /\ UNCHANGED <<backendVars, dispatcherVars, epochReg, spendNotifications,
                   dispatcher, epochClientCounter, quit, stopped>>

\* the transactions the backend reports: their inputs' outpoints, and the
\* height of their block (0 while unconfirmed)
RelevantTxs ==
    {[inputs |-> i, block |-> h] :
        i \in {<<o>> : o \in OutPoints} \cup {<<1, MaxOutPoints>>},
        h \in {0, Height(chainTip)}}

\* case chain.RelevantTx
RelevantTx ==
    /\ dispatcher = "running"
    /\ \E tx \in RelevantTxs :
        LET s == handleRelevantTx(Work(0, {}), tx, bestBlock.Height)
        IN /\ Commit(s)
           /\ last' = Did("RelevantTx", tx.inputs[1], TxBlockMeta(tx.block), s)
    /\ UNCHANGED <<backendVars, counterVars, quit, stopped>>

\* The Cancel closure's drain loop ends when the receive reports the
\* channel closed.
DrainDone(ch) == IsClosed(ch)

\* SpendEvent.Cancel: the cancellation is taken by the dispatcher, the
\* caller starts draining
SpendCancel ==
    /\ dispatcher = "running"
    /\ \E id \in SpendIds :
        /\ spendNtfn[id].event = "held"
        /\ spendNtfn[id].cancel # "draining"
        /\ spendNtfn[id].calls < MaxCancelCalls
        /\ LET w == [Work(0, {}) EXCEPT !.sp[id].cancel = "draining",
                                        !.sp[id].calls = @ + 1]
               s == OnSpendCancel(w, id, spendNtfn[id].targetOutpoint)
           IN /\ Commit(s)
              /\ last' = Did("SpendCancel", id, NoBest, s)
    /\ UNCHANGED <<backendVars, counterVars, quit, stopped>>

\* SpendEvent.Cancel returns because the drain saw the channel closed
SpendCancelReturn ==
    /\ dispatcher # "panicked"
    /\ \E id \in SpendIds :
        /\ spendNtfn[id].cancel = "draining"
        /\ DrainDone(spendNtfn[id].spendChan)
        /\ spendNtfn' = [spendNtfn EXCEPT
                ![id].cancel = "returned", ![id].via = "closed",
                ![id].lenAtReturn = Len(spendNtfn[id].spendChan.buf)]
    /\ UNCHANGED <<backendVars, dispatcherVars, epochReg, spendNotifications,
                   dispatcher, counterVars, quit, stopped, last>>

\* SpendEvent.Cancel returns through a case <-b.quit, of the submission or
\* of the drain loop
SpendCancelQuit ==
    /\ quit
    /\ dispatcher # "panicked"
    /\ \E id \in SpendIds :
        /\ spendNtfn[id].event = "held"
        /\ \/ spendNtfn[id].cancel = "draining"
           \/ spendNtfn[id].calls < MaxCancelCalls
        /\ spendNtfn' = [spendNtfn EXCEPT
                ![id].cancel = "returned", ![id].via = "quit",
                ![id].calls = IF spendNtfn[id].cancel = "draining" THEN @ ELSE @ + 1,
                ![id].lenAtReturn = Len(spendNtfn[id].spendChan.buf)]
    /\ UNCHANGED <<backendVars, dispatcherVars, epochReg, spendNotifications,
                   dispatcher, counterVars, quit, stopped, last>>

\* ------------------------------------------------- epoch subscriptions
\* a relay that forwards the newest epoch of the queue instead of the next
RelayNewestFirst ==
    /\ dispatcher # "panicked"
    /\ \E c \in EpochIds :
        /\ epochReg[c].relay = "running"
        /\ Len(epochReg[c].epochChan.buf) < Len(epochQueue[c])
        /\ epochReg' = [epochReg EXCEPT ![c].epochChan.buf =
                Append(@, epochQueue[c][Len(epochQueue[c])])]
    /\ UNCHANGED <<backendVars, dispatcherVars, spendNotifications, spendNtfn,
                   dispatcher, counterVars, quit, stopped, last>>

\* the relay goroutine forwards the next epoch of the queue to epochChan
Relay ==
    /\ dispatcher # "panicked"
    /\ \E c \in EpochIds :
        /\ epochReg[c].relay = "running"
        /\ Len(epochReg[c].epochChan.buf) < Len(epochQueue[c])
        /\ epochReg' = [epochReg EXCEPT ![c].epochChan.buf =
                Append(@, epochQueue[c][Len(@) + 1])]
    /\ UNCHANGED <<backendVars, dispatcherVars, spendNotifications, spendNtfn,
                   dispatcher, counterVars, quit, stopped, last>>

\* the relay goroutine takes a case <-b.quit
RelayExit ==
    /\ quit
    /\ dispatcher # "panicked"
    /\ \E c \in EpochIds :
        /\ epochReg[c].relay = "running"
        /\ epochReg' = [epochReg EXCEPT ![c].relay = "exited"]
    /\ UNCHANGED <<backendVars, dispatcherVars, spendNotifications, spendNtfn,
                   dispatcher, counterVars, quit, stopped, last>>

\* BlockEpochEvent.Cancel: the cancellation is taken by the dispatcher
EpochCancel ==
    /\ dispatcher = "running"
    /\ \E c \in EpochIds :
        /\ epochReg[c].event = "held"
        /\ epochReg[c].cancel # "draining"
        /\ epochReg[c].calls < MaxCancelCalls
        /\ LET w == [Work(0, {}) EXCEPT !.er[c].cancel = "draining",
                                        !.er[c].calls = @ + 1]
               s == OnEpochCancel(w, c)
           IN /\ Commit(s)
              /\ last' = Did("EpochCancel", c, NoBest, s)
    /\ UNCHANGED <<backendVars, counterVars, quit, stopped>>

\* BlockEpochEvent.Cancel returns because the drain saw the channel closed
EpochCancelReturn ==
    /\ dispatcher # "panicked"
    /\ \E c \in EpochIds :
        /\ epochReg[c].cancel = "draining"
        /\ DrainDone(epochReg[c].epochChan)
        /\ epochReg' = [epochReg EXCEPT
                ![c].cancel = "returned", ![c].via = "closed",
                ![c].lenAtReturn = Len(epochReg[c].epochChan.buf)]
    /\ UNCHANGED <<backendVars, dispatcherVars, spendNotifications, spendNtfn,
                   dispatcher, counterVars, quit, stopped, last>>

\* BlockEpochEvent.Cancel returns through a case <-b.quit
EpochCancelQuit ==
    /\ quit
    /\ dispatcher # "panicked"
    /\ \E c \in EpochIds :
        /\ epochReg[c].event = "held"
        /\ \/ epochReg[c].cancel = "draining"
           \/ epochReg[c].calls < MaxCancelCalls
        /\ epochReg' = [epochReg EXCEPT
                ![c].cancel = "returned", ![c].via = "quit",
                ![c].calls = IF epochReg[c].cancel = "draining" THEN @ ELSE @ + 1,
                ![c].lenAtReturn = Len(epochReg[c].epochChan.buf)]
    /\ UNCHANGED <<backendVars, dispatcherVars, spendNotifications, spendNtfn,
                   dispatcher, counterVars, quit, stopped, last>>

\* -------------------------------------------- confirmation subscriptions
\* RegisterConfirmationsNtfn(txid, numConfs, heightHint), the registration
\* taken by the dispatcher
RegisterConfirmationsNtfn ==
    /\ dispatcher = "running"
    /\ \E r \in ConfIds, txid \in TxIds, numConfs \in 1..MaxConfs,
          heightHint \in 1..MaxHeight, txindex \in BOOLEAN, failAt \in 0..MaxRpc :
        /\ confNtfn[r].event = "none"
        /\ \A q \in 1..(r - 1) : confNtfn[q].event # "none"
        /\ LET w == [Work(failAt, {}) EXCEPT !.ntfn[r] =
                        [NoConfNtfn EXCEPT !.registered = TRUE, !.event = "held",
                                           !.txid = txid,
                                           !.numConfs = numConfs,
                                           !.heightHint = heightHint]]
               s == OnConfRegistration(w, r, txindex)
           IN /\ Commit(s)
              /\ last' = Did("RegisterConfirmationsNtfn", r, NoBest, s)
    /\ UNCHANGED <<backendVars, counterVars, quit, stopped>>

\* RegisterConfirmationsNtfn when its select takes the quit case
RegisterConfirmationsNtfnQuit ==
    /\ quit
    /\ dispatcher # "panicked"
    /\ \E r \in ConfIds :
        /\ confNtfn[r].event = "none"
        /\ \A q \in 1..(r - 1) : confNtfn[q].event # "none"
        /\ confNtfn' = [confNtfn EXCEPT ![r].event = "shutdown"]
    /\ last' = Quiet("RegisterConfirmationsNtfnQuit")
    /\ UNCHANGED <<backendVars, bestBlock, txConfNotifier, confEvent,
                   blockEpochClients, epochQueue, epochReg, spendNotifications,
                   spendNtfn, dispatcher, counterVars, quit, stopped>>

\* Stop called again: atomic.AddInt32(&b.stopped, 1) != 1, so it returns nil
\* at once, whatever the first call has done so far
StopAgain ==
    /\ stopped # "no"
    /\ dispatcher # "panicked"
    /\ last' = Quiet("StopAgain")
    /\ UNCHANGED <<backendVars, notifierVars, counterVars, quit, stopped>>

Next ==
    \/ BackendMine
    \/ BackendReorg
    \/ MissedNtfn
    \/ BlockConnected
    \/ BlockDisconnected
    \/ RegisterBlockEpochNtfn
    \/ RegisterBlockEpochNtfnQuit
    \/ StopBegin
    \/ DispatcherExit
    \/ StopFinish

Spec == Init /\ [][Next]_vars

\* Spend subscriptions: subscribers register, are served, cancel, and the
\* notifier stops, while the chain stands still.
InitStill ==
    /\ chainTip = HashOf(1, ForkHeight + 1)
    /\ ntfnTip = chainTip
    /\ blockTxs = [b \in Blocks |-> <<>>]
    /\ InitNotifier

InitSpend ==
    /\ InitStill
    /\ epochClientCounter = 0
    /\ spendClientCounter = 0

NextSpend ==
    \/ RegisterSpendNtfn
    \/ RegisterSpendNtfnQuit
    \/ RelevantTx
    \/ SpendCancel
    \/ SpendCancelReturn
    \/ SpendCancelQuit
    \/ StopBegin
    \/ DispatcherExit
    \/ StopFinish

SpecSpend == InitSpend /\ [][NextSpend]_vars

\* Spend and epoch subscriptions together.  One id of each kind is left to
\* hand out: the earlier ones went to subscribers that have gone, whose
\* registrations are no longer in the registries.
InitCancel ==
    /\ InitStill
    /\ epochClientCounter = MaxEpochClients - 1
    /\ spendClientCounter = MaxSpendClients - 1

NextCancel ==
    \/ RegisterSpendNtfn
    \/ RelevantTx
    \/ SpendCancel
    \/ SpendCancelReturn
    \/ SpendCancelQuit
    \/ RegisterBlockEpochNtfn
    \/ Relay
    \/ RelayExit
    \/ EpochCancel
    \/ EpochCancelReturn
    \/ EpochCancelQuit
    \/ StopBegin
    \/ DispatcherExit
    \/ StopFinish

SpecCancel == InitCancel /\ [][NextCancel]_vars

\* The three kinds of registration, cancellations and Stop, with one id of
\* each kind left to hand out.
InitRegister ==
    /\ InitStill
    /\ epochClientCounter = MaxEpochClients - 1
    /\ spendClientCounter = MaxSpendClients - 1

NextRegister ==
    \/ RegisterSpendNtfn
    \/ RegisterSpendNtfnQuit
    \/ RegisterConfirmationsNtfn
    \/ RegisterConfirmationsNtfnQuit
    \/ RegisterBlockEpochNtfn
    \/ RegisterBlockEpochNtfnQuit
    \/ RelevantTx
    \/ SpendCancel
    \/ EpochCancel
    \/ StopBegin
    \/ StopAgain
    \/ DispatcherExit
    \/ StopFinish

SpecRegister == InitRegister /\ [][NextRegister]_vars

\* Confirmations: the watched transaction sits in at most one block of each
\* fork; a subscriber registers while the chain grows and reorganises.
InitConf ==
    /\ chainTip = HashOf(1, ForkHeight)
    /\ ntfnTip = chainTip
    /\ \E a, b \in (ForkHeight + 1)..(MaxHeight + 1) :
        blockTxs = [h \in Blocks |->
            IF h = HashOf(1, a) /\ a <= MaxHeight THEN <<1>>
            ELSE IF h = HashOf(2, b) /\ b <= MaxHeight THEN <<2, 1>>
            ELSE <<>>]
    /\ InitNotifier
    /\ epochClientCounter = 0
    /\ spendClientCounter = 0

NextConf ==
    \/ BackendMine
    \/ BackendReorg
    \/ MissedNtfn
    \/ BlockConnected
    \/ BlockDisconnected
    \/ RegisterConfirmationsNtfn
    \/ StopBegin
    \/ DispatcherExit
    \/ StopFinish

SpecConf == InitConf /\ [][NextConf]_vars

\* func (b *BitcoindNotifier) GetBestHeight() uint32
GetBestHeight == 0

\* ------------------------------------------- the TxConfNotifier on its own
\* The calls of its interface, made in any order on a tree of two forks that
\* part right above the start block.  Heights count from the start height.
\* The watched transaction (txid 1) sits in at most one block of each fork:
\* at index 2 of its block on fork 1 (the first block, or none), at index 0
\* on fork 2 (the first block or the third).
TipHash(f, h) == IF h = 0 THEN 1000 ELSE (f + 1) * 1000 + h
TipBlocks == {TipHash(f, h) : f \in Forks, h \in 0..TipMaxHeight}
TipPrev(hash) == IF Height(hash) <= 1 THEN TipHash(1, 0) ELSE hash - 1
TipOnChain(hash, tip) ==
    /\ Height(hash) >= 1
    /\ Height(hash) <= Height(tip)
    /\ ForkOf(hash) = ForkOf(tip)

InitTcn ==
    /\ chainTip = TipHash(1, 0)
    /\ ntfnTip = chainTip
    /\ \E a \in {1, TipMaxHeight + 1}, b \in {1, 3} :
        blockTxs = [h \in TipBlocks |->
            IF h = TipHash(1, a) THEN <<2, 3, 1>>
            ELSE IF h = TipHash(2, b) THEN <<1, 2>>
            ELSE <<2>>]
    /\ InitNotifier
    /\ epochClientCounter = 0
    /\ spendClientCounter = 0

\* the handler state of a call made to the TxConfNotifier directly; the log
\* of accepted calls is kept over the whole run
TipWork == [Work(0, {}) EXCEPT !.tcnCalls = last.tcnCalls]

\* what a direct call leaves behind
TipCommit(op, id, hash, s, tip) ==
    /\ txConfNotifier' = s.tcn
    /\ confNtfn' = s.ntfn
    /\ confEvent' = s.ev
    /\ chainTip' = tip
    /\ ntfnTip' = tip
    /\ bestBlock' = EpochOf(tip)
    /\ last' = Did(op, id, IF s.err THEN NoBest ELSE ClientBest(hash), s)
    /\ UNCHANGED <<blockTxs, blockEpochClients, epochQueue, epochReg,
                   spendNotifications, spendNtfn, dispatcher, counterVars,
                   quit, stopped>>

\* connect_tip for the next block of the chain, or for a block at another
\* height
TipConnect ==
    /\ Len(last.tcnCalls) < TipMaxOps
    /\ \E hash \in TipBlocks :
        /\ Height(hash) >= 1
        /\ Height(hash) = txConfNotifier.currentHeight + 1 => TipPrev(hash) = chainTip
        /\ LET s == ConnectTip(TipWork, hash, Height(hash), blockTxs[hash])
           IN TipCommit("ConnectTip", 0, hash, s, IF s.err THEN chainTip ELSE hash)

\* disconnect_tip for the tip, or for another height
TipDisconnect ==
    /\ Len(last.tcnCalls) < TipMaxOps
    /\ \E height \in 1..TipMaxHeight :
        LET s == DisconnectTip(TipWork, height)
        IN TipCommit("DisconnectTip", 0, chainTip, s,
                     IF s.err THEN chainTip ELSE TipPrev(chainTip))

\* register, with the details of the transaction's block on the current
\* chain when the caller knows them
TipRegister ==
    /\ Len(last.tcnCalls) < TipMaxOps
    /\ \E r \in ConfIds, numConfs \in 1..TipMaxConfs, known \in BOOLEAN :
        /\ confNtfn[r].event = "none"
        /\ \A q \in 1..(r - 1) : confNtfn[q].event # "none"
        /\ LET in == {b \in TipBlocks : TipOnChain(b, chainTip) /\ 1 \in Range(blockTxs[b])}
               conf == IF known /\ in # {}
                       THEN LET b == CHOOSE b \in in : TRUE IN Found(b, Height(b), 1)
                       ELSE NotFound
               w == [TipWork EXCEPT
                        !.ntfn[r] = [NoConfNtfn EXCEPT !.registered = TRUE,
                                        !.event = "held", !.txid = 1,
                                        !.numConfs = numConfs],
                        !.tcnCalls = Append(@, <<"register", numConfs, conf.BlockHash>>)]
               s == Register(w, r, conf)
           IN TipCommit("Register", r, chainTip, s, chainTip)

NextTcn ==
    \/ TipConnect
    \/ TipDisconnect
    \/ TipRegister

SpecTcn == InitTcn /\ [][NextTcn]_vars

\* ===================================================================== claims
\* The block tree itself, for the statements below.
CommonAncestorHeight(x, y) ==
    CHOOSE h \in Heights :
        /\ h <= Height(x) /\ h <= Height(y)
        /\ AncestorAt(x, h) = AncestorAt(y, h)
        /\ \A k \in Heights :
            (k > h /\ k <= Height(x) /\ k <= Height(y)) => AncestorAt(x, k) # AncestorAt(y, k)
\* the epochs of tip's chain for the heights from + 1 .. to
EpochsOf(tip, from, to) ==
    [i \in 1..(IF to > from THEN to - from ELSE 0) |->
        Epoch(from + i, AncestorAt(tip, from + i))]
AnsweredAndRunning == ~last.failed /\ ~quit

\* C1 (as the claim states it): the epochs put into a subscriber's queue,
\* which the relay hands on in this order, go up by exactly one height from
\* each to the next, and every epoch a step sends is a block of the
\* notifier's best chain.
C1_EpochsAscendByOne ==
    /\ \A c \in EpochIds : \A i \in 1..(Len(epochQueue[c]) - 1) :
            epochQueue[c][i + 1].Height = epochQueue[c][i].Height + 1
    /\ \A c \in EpochIds : \A i \in DOMAIN last.sent[c] :
            bestBlock.Hash # NilHash => OnChain(last.sent[c][i].Hash, bestBlock.Hash)

C3_MissedBlocksReplayed ==
    (/\ last.op = "BlockConnected"
     /\ last.best0.Hash # NilHash /\ OnChain(last.best0.Hash, chainTip)
     /\ last.item.Height > last.best0.Height + 1
     /\ AnsweredAndRunning)
    => \A c \in blockEpochClients :
            last.sent[c] = EpochsOf(last.item.Hash, last.best0.Height, last.item.Height)

\* C4 (as the claim states it; every backend call of the step answers and the
\* notifier is not shutting down): when the notifier's best block at height h
\* has left the backend's chain, the forks parting above a < h, and
\* BlockConnected arrives for h + 1, every subscriber gets the epochs of the
\* backend's chain for a + 1 .. h + 1.
C4_ReorgReplayed ==
    (/\ last.op = "BlockConnected"
     /\ last.best0.Hash # NilHash /\ ~OnChain(last.best0.Hash, chainTip)
     /\ CommonAncestorHeight(last.best0.Hash, last.item.Hash) < last.best0.Height
     /\ last.item.Height = last.best0.Height + 1
     /\ AnsweredAndRunning)
    => \A c \in blockEpochClients :
            last.sent[c] = EpochsOf(last.item.Hash,
                                    CommonAncestorHeight(last.best0.Hash, last.item.Hash),
                                    last.item.Height)

\* C5: a spend subscriber's channel never holds more than one SpendDetail,
\* whatever RelevantTx events, cancellations and shutdown steps have run, and
\* a channel that was sent a SpendDetail is closed by the step that sent it.
C5_OneSpendDetailThenClosed ==
    \A id \in SpendIds :
        /\ Len(spendNtfn[id].spendChan.buf) <= 1
        /\ Len(spendNtfn[id].spendChan.buf) = 1 => IsClosed(spendNtfn[id].spendChan)

\* a subscriber got its SpendDetail, called Cancel, and the notifier stopped
C5_Witness ==
    \E id \in SpendIds :
        /\ Len(spendNtfn[id].spendChan.buf) = 1
        /\ spendNtfn[id].calls >= 1
        /\ stopped = "done"

\* C6: a confirmation registration's confirmed channel is sent at most one
\* value, over every run of registrations, connected and disconnected blocks
\* and shutdown.
C6_AtMostOneConfirmed ==
    \A r \in ConfIds : Len(confEvent[r].confirmed) <= 1

\* a registration fired on one fork; its block was reorged out and the
\* notifier has since connected the block of the other fork that holds the
\* transaction
C6_Witness ==
    \E r \in ConfIds, b \in Blocks :
        /\ Len(confEvent[r].confirmed) = 1
        /\ b # confEvent[r].confirmed[1].BlockHash
        /\ confNtfn[r].txid \in Range(blockTxs[b])
        /\ bestBlock.Hash # NilHash
        /\ OnChain(b, bestBlock.Hash)
        /\ txConfNotifier.currentHeight = bestBlock.Height
        /\ last.op = "BlockConnected" /\ ~last.err

C8_ClosedAfterCancelReturns ==
    /\ \A id \in SpendIds :
        spendNtfn[id].via # "none"
            => /\ IsClosed(spendNtfn[id].spendChan)
               /\ Len(spendNtfn[id].spendChan.buf) = spendNtfn[id].lenAtReturn
    /\ \A c \in EpochIds :
        epochReg[c].via # "none"
            => /\ IsClosed(epochReg[c].epochChan)
               /\ Len(epochReg[c].epochChan.buf) = epochReg[c].lenAtReturn

\* C8 (amended): once a Cancel has returned because its drain loop saw the
\* channel closed, the channel is closed and is never sent another value.  A
\* Cancel that returns through the quit case, while the notifier shuts down,
\* promises neither.
C8_ClosedAfterCancelSawClose ==
    /\ \A id \in SpendIds :
        spendNtfn[id].via = "closed"
            => /\ IsClosed(spendNtfn[id].spendChan)
               /\ Len(spendNtfn[id].spendChan.buf) = spendNtfn[id].lenAtReturn
    /\ \A c \in EpochIds :
        epochReg[c].via = "closed"
            => /\ IsClosed(epochReg[c].epochChan)
               /\ Len(epochReg[c].epochChan.buf) = epochReg[c].lenAtReturn

\* a spend and an epoch subscriber both cancelled and saw the close, the
\* epoch subscriber after an epoch had reached it and with more in its queue
C8_Witness ==
    \E id \in SpendIds, c \in EpochIds :
        /\ spendNtfn[id].via = "closed"
        /\ epochReg[c].via = "closed"
        /\ epochReg[c].lenAtReturn >= 1
        /\ Len(epochQueue[c]) > epochReg[c].lenAtReturn

\* C9: whichever of a dispatch and a Cancel of the same spend subscription
\* the dispatcher handles first, the channel holds at most one value, is
\* closed exactly once by the first of the two, the dispatcher does not block
\* on the send, and the caller's drain loop finds the channel closed.
C9_DispatchCancelRace ==
    /\ dispatcher # "blocked"
    /\ \A id \in SpendIds :
        /\ spendNtfn[id].spendChan.closes <= 1
        /\ (Len(spendNtfn[id].spendChan.buf) = 1 /\ spendNtfn[id].calls >= 1)
                => spendNtfn[id].spendChan.closes = 1
        /\ spendNtfn[id].cancel = "draining" => DrainDone(spendNtfn[id].spendChan)
        /\ (spendNtfn[id].via = "closed" /\ spendNtfn[id].lenAtReturn = 0)
                => spendNtfn[id].spendChan = [buf |-> <<>>, closes |-> 1]

\* both orders: one subscriber was sent its SpendDetail and then cancelled,
\* the other cancelled and then a transaction spending its outpoint arrived
C9_Witness ==
    \E i, j \in SpendIds :
        /\ i # j
        /\ Len(spendNtfn[i].spendChan.buf) = 1
        /\ spendNtfn[i].via = "closed"
        /\ spendNtfn[j].via = "closed"
        /\ spendNtfn[j].spendChan.buf = <<>>
        /\ last.op = "RelevantTx"
        /\ last.id = spendNtfn[j].targetOutpoint

\* C10 (as the claim states it): a spend cancellation taken by the
\* dispatcher for a spend_id that is not in the registry under its outpoint
\* leaves the dispatcher running and the registry as it was.
C10_CancelUnregisteredIsNoOp ==
    [][\A id \in SpendIds :
        (/\ spendNtfn'[id].calls = spendNtfn[id].calls + 1
         /\ spendNtfn'[id].cancel = "draining"
         /\ ~(/\ spendNotifications[spendNtfn[id].targetOutpoint].present
              /\ id \in spendNotifications[spendNtfn[id].targetOutpoint].ids))
        => /\ dispatcher' = "running"
           /\ spendNotifications' = spendNotifications]_vars

\* C11 (as the claim states it): an epoch cancellation taken by the
\* dispatcher for an epoch_id that is not in the registry (never registered,
\* or cancelled before) leaves the dispatcher running and the registry as it
\* was.
C11_EpochCancelUnregisteredIsNoOp ==
    [][\A c \in EpochIds :
        (/\ epochReg'[c].calls = epochReg[c].calls + 1
         /\ epochReg'[c].cancel = "draining"
         /\ c \notin blockEpochClients)
        => /\ dispatcher' = "running"
           /\ blockEpochClients' = blockEpochClients]_vars

\* ----------------------------------------------- registration and shutdown
\* a Stop call has returned: the one that shut the notifier down, or a later
\* one that found the shutdown begun
FirstStopReturned == stopped = "done"
SomeStopReturned == stopped = "done" \/ last.op = "StopAgain"

\* this step is a Register* call returning
RegisterReturns ==
    \/ \E id \in SpendIds : spendNtfn[id].event = "none" /\ spendNtfn'[id].event # "none"
    \/ \E c \in EpochIds : epochReg[c].event = "none" /\ epochReg'[c].event # "none"
    \/ \E r \in ConfIds : confNtfn[r].event = "none" /\ confNtfn'[r].event # "none"

\* ... with the shutdown error, no handle, and the registries as they were
RegisterRefused ==
    /\ \A id \in SpendIds : spendNtfn'[id].event \in {spendNtfn[id].event, "shutdown"}
    /\ \A c \in EpochIds : epochReg'[c].event \in {epochReg[c].event, "shutdown"}
    /\ \A r \in ConfIds : confNtfn'[r].event \in {confNtfn[r].event, "shutdown"}
    /\ spendNotifications' = spendNotifications
    /\ blockEpochClients' = blockEpochClients
    /\ txConfNotifier' = txConfNotifier

\* C12 (as the claim states it): once a Stop call has returned, every
\* Register* call returns the shutdown error and no handle, and adds nothing
\* to a registry.
C12_RegisterAfterStopRefused ==
    [][(SomeStopReturned /\ RegisterReturns) => RegisterRefused]_vars

\* C12 (amended): once the Stop call that shut the notifier down has
\* returned, every Register* call returns the shutdown error and no handle,
\* and adds nothing to a registry.  A Stop call made after the first returns
\* at once and promises nothing.
C12_RegisterAfterShutdownRefused ==
    [][(FirstStopReturned /\ RegisterReturns) => RegisterRefused]_vars

\* after Stop returned, a registration of each kind was refused
C12_Witness ==
    /\ stopped = "done"
    /\ \E id \in SpendIds : spendNtfn[id].event = "shutdown"
    /\ \E c \in EpochIds : epochReg[c].event = "shutdown"
    /\ \E r \in ConfIds : confNtfn[r].event = "shutdown"

\* C13 (as the claim states it): a Register* call returns an event handle or
\* the shutdown error, never another error.
C13_RegisterReturnsHandleOrShutdown ==
    /\ \A id \in SpendIds : spendNtfn[id].event \in {"none", "held", "shutdown"}
    /\ \A c \in EpochIds : epochReg[c].event \in {"none", "held", "shutdown"}
    /\ \A r \in ConfIds : confNtfn[r].event \in {"none", "held", "shutdown"}

\* the dispatcher loop has exited, every registered spend channel is closed,
\* every registered epoch subscription has its relay finished and its
\* channel closed, every outstanding confirmation registration is closed
\* without a value, and no channel was closed twice
ShutdownComplete ==
    /\ dispatcher = "exited"
    /\ \A o \in OutPoints : \A id \in spendNotifications[o].ids :
            IsClosed(spendNtfn[id].spendChan)
    /\ \A c \in blockEpochClients :
            epochReg[c].relay = "exited" /\ IsClosed(epochReg[c].epochChan)
    /\ \A r \in Tracked(txConfNotifier) :
            confEvent[r].closed /\ confEvent[r].confirmed = <<>>
    /\ \A id \in SpendIds : spendNtfn[id].spendChan.closes <= 1
    /\ \A c \in EpochIds :
            epochReg[c].epochChan.closes <= 1 /\ epochReg[c].cancelChan.closes <= 1
    /\ \A r \in ConfIds : confEvent[r].closes <= 1

\* C14 (as the claim states it): after a Stop call returns, the shutdown is
\* complete.
C14_StopLeavesAllClosed ==
    SomeStopReturned => ShutdownComplete

\* C14 (amended): after the Stop call that shut the notifier down returns,
\* the shutdown is complete.  A Stop call made while the first is still at
\* work returns at once, before any of it need have happened.
C14_ShutdownLeavesAllClosed ==
    FirstStopReturned => ShutdownComplete

\* Stop returned with a subscriber of each kind still registered
C14_Witness ==
    /\ stopped = "done"
    /\ \E o \in OutPoints : spendNotifications[o].ids # {}
    /\ blockEpochClients # {}
    /\ Tracked(txConfNotifier) # {}

\* C15: the SpendDetail a step sends has the height of the block that
\* carries the transaction when the RelevantTx names a block, and the
\* notifier's best height + 1 when it names none (a mempool spend).
C15_SpendingHeight ==
    [][\A id \in SpendIds :
        Len(spendNtfn'[id].spendChan.buf) > Len(spendNtfn[id].spendChan.buf)
        => spendNtfn'[id].spendChan.buf[Len(spendNtfn'[id].spendChan.buf)].SpendingHeight
            = IF last'.item.given THEN last'.item.Height ELSE bestBlock.Height + 1]_vars

\* one subscriber was sent a mempool spend, another a spend from a block
\* below the tip
C15_Witness ==
    \E i, j \in SpendIds :
        /\ spendNtfn[i].spendChan.buf # <<>>
        /\ spendNtfn[i].spendChan.buf[1].SpendingHeight = bestBlock.Height + 1
        /\ spendNtfn[j].spendChan.buf # <<>>
        /\ spendNtfn[j].spendChan.buf[1].SpendingHeight < bestBlock.Height

\* The calls of scenario S3, with model height h standing for block 100 + h,
\* fork 1 for the blocks 101, 102 and fork 2 for 101', ..., 105'.
S3Script ==
    << <<"register", 3, NilHash>>,
       <<"connect", 1, TipHash(1, 1)>>, <<"connect", 2, TipHash(1, 2)>>,
       <<"disconnect", 2, NilHash>>, <<"disconnect", 1, NilHash>>,
       <<"connect", 1, TipHash(2, 1)>>, <<"connect", 2, TipHash(2, 2)>>,
       <<"connect", 3, TipHash(2, 3)>>, <<"connect", 4, TipHash(2, 4)>>,
       <<"connect", 5, TipHash(2, 5)>> >>
\* T is at index 2 of 101 and at index 0 of 103', and in no other block
S3Chain ==
    /\ blockTxs[TipHash(1, 1)] = <<2, 3, 1>>
    /\ blockTxs[TipHash(2, 3)] = <<1, 2>>
IsPrefix(a, b) == Len(a) <= Len(b) /\ SubSeq(b, 1, Len(a)) = a

\* C16: scenario S3.  With T registered for 3 confirmations, after any part
\* of connect 101 (T at index 2), connect 102, disconnect 102, disconnect
\* 101, connect 101' (no T), 102', 103' (T at index 0), 104', 105' short of
\* the whole the registration has not fired; after the whole it has fired
\* exactly once, with block_height = 103 and tx_index = 0.
C16_ScenarioS3 ==
    (S3Chain /\ last.tcnCalls # <<>> /\ IsPrefix(last.tcnCalls, S3Script)) =>
        IF last.tcnCalls = S3Script
        THEN /\ confEvent[1].confirmed = <<TxConfirmation(TipHash(2, 3), 3, 0)>>
             /\ confEvent[1].closes = 1
        ELSE /\ confEvent[1].confirmed = <<>>
             /\ confEvent[1].closes = 0
C16_Witness ==
    /\ S3Chain
    /\ last.tcnCalls = S3Script
    /\ last.op = "ConnectTip"
    /\ ~last.err

\* the TxConfNotifier calls that take it from block `from` to block `to`:
\* the disconnects down to their common ancestor, then the connects of to's
\* chain
ReorgCalls(from, to) ==
    LET a == CommonAncestorHeight(from, to)
    IN [i \in 1..(Height(from) - a) |-> <<"disconnect", Height(from) - i + 1, NilHash>>]
       \o [i \in 1..(Height(to) - a) |-> <<"connect", a + i, AncestorAt(to, a + i)>>]

\* C17: scenario S2, for any depth of the fork.  With the notifier and its
\* TxConfNotifier at the tip (h, HA) of fork A, the backend on fork B that
\* parted from A above a < h, and BlockConnected(h + 1, HB) arriving (every
\* backend call answers, no shutdown), the dispatcher issues TxConfNotifier
\* disconnects for h, ..., a + 1 before any connect and then connects
\* a + 1, ..., h + 1 with fork B's hashes, in that order.
C17_ScenarioS2 ==
    [][(/\ ntfnTip' # ntfnTip
        /\ last'.op = "BlockConnected"
        /\ bestBlock.Hash # NilHash
        /\ txConfNotifier.currentHeight = bestBlock.Height
        /\ ~OnChain(bestBlock.Hash, chainTip)
        /\ last'.item.Height = bestBlock.Height + 1
        /\ CommonAncestorHeight(bestBlock.Hash, last'.item.Hash) < bestBlock.Height
        /\ ~last'.failed /\ ~quit)
       => last'.tcnCalls = ReorgCalls(bestBlock.Hash, last'.item.Hash)]_vars

\* the TxConfNotifier state: current_height, ntfns (with what each
\* registration holds), conf_ntfns_per_height, tx_by_initial_height
TcnState(s) ==
    <<s.tcn, [r \in ConfIds |-> [s.ntfn[r] EXCEPT !.reorged = FALSE]]>>
\* connect_tip(hash) at current_height + 1, then disconnect_tip there
RoundTrip(hash) ==
    DisconnectTip(ConnectTip(TipWork, hash, Height(hash), blockTxs[hash]), Height(hash))
\* the registrations connect_tip(hash) brings to their target height
Fired(hash) ==
    {r \in ConfIds :
        ConnectTip(TipWork, hash, Height(hash), blockTxs[hash]).ev[r].closes
            # confEvent[r].closes}

\* C18 (as the claim states it): from every TxConfNotifier state and for
\* every block, connect_tip at current_height + 1 followed by
\* disconnect_tip at that height leaves the TxConfNotifier state as it was
\* before the connect, also when the block holds a registered transaction
\* or brings a registration to its target height.
C18_ConnectDisconnectIdentity ==
    \A hash \in TipBlocks :
        Height(hash) = txConfNotifier.currentHeight + 1
        => TcnState(RoundTrip(hash)) = TcnState(TipWork)

\* C18 (amended): the same, for a connect that brings no registration to its
\* target height; the block may hold a registered transaction.
C18_ConnectDisconnectIdentityUnlessFired ==
    \A hash \in TipBlocks :
        (Height(hash) = txConfNotifier.currentHeight + 1 /\ Fired(hash) = {})
        => TcnState(RoundTrip(hash)) = TcnState(TipWork)

\* a block holding the registered transaction was connected and then
\* disconnected, and the registration is back to unseen and still tracked
C18_Witness ==
    /\ Len(last.tcnCalls) >= 3
    /\ LET n == Len(last.tcnCalls)
           c == last.tcnCalls[n - 1]
           d == last.tcnCalls[n]
       IN /\ c[1] = "connect" /\ d[1] = "disconnect" /\ c[2] = d[2]
          /\ 1 \in Range(blockTxs[c[3]])
          /\ 1 \in Tracked(txConfNotifier)
          /\ confNtfn[1].txid = 1 /\ ~confNtfn[1].seen /\ confNtfn[1].reorged
          /\ txConfNotifier.currentHeight = d[2] - 1

\* C19: the debug accessor GetBestHeight returns the notifier's current tip
\* height, after any sequence of block connects and disconnects.
C19_GetBestHeightIsTip == GetBestHeight = bestBlock.Height

\* what a call leaves of the TxConfNotifier and of what it has emitted
TcnLeft(s) == <<s.tcn, s.ntfn, s.ev>>

\* C20: connect_tip(h) succeeds only when h = current_height + 1 and fails
\* otherwise, disconnect_tip(h) succeeds only when h = current_height and
\* fails otherwise, and a failed call changes no TxConfNotifier state and
\* emits nothing.
C20_OnlyAtOwnTip ==
    /\ \A hash \in TipBlocks :
        LET s == ConnectTip(TipWork, hash, Height(hash), blockTxs[hash])
        IN /\ s.err <=> Height(hash) # txConfNotifier.currentHeight + 1
           /\ s.err => TcnLeft(s) = TcnLeft(TipWork)
           /\ ~s.err => s.tcn.currentHeight = Height(hash)
    /\ \A height \in 0..(TipMaxHeight + 1) :
        LET s == DisconnectTip(TipWork, height)
        IN /\ s.err <=> height # txConfNotifier.currentHeight
           /\ s.err => TcnLeft(s) = TcnLeft(TipWork)
           /\ ~s.err => s.tcn.currentHeight = height - 1

\* a call at another height than the tip's was refused while a registration
\* was waiting for its confirmations
C20_Witness ==
    /\ last.op \in {"ConnectTip", "DisconnectTip"}
    /\ last.err
    /\ 1 \in Tracked(txConfNotifier)
    /\ confNtfn[1].seen

\* the height a run of accepted TxConfNotifier calls leads to from height c,
\* each connect counting one up and each disconnect one down
RECURSIVE HeightAfter(_, _)
HeightAfter(c, calls) ==
    IF calls = <<>> THEN c
    ELSE HeightAfter(IF Head(calls)[1] = "connect" THEN c + 1
                     ELSE IF Head(calls)[1] = "disconnect" THEN c - 1
                     ELSE c,
                     Tail(calls))

\* C21: TxConfNotifier.current_height changes only by steps of one: every
\* step of the notifier leaves it at the height it had, plus one for each
\* connect_tip the step made that succeeded, minus one for each
\* disconnect_tip that succeeded; register, tear_down and a failed connect
\* or disconnect leave it as it was; a succeeding connect_tip(h) leaves it
\* at h and a succeeding disconnect_tip(h) at h - 1.
C21_HeightStepsByOne ==
    [][/\ txConfNotifier'.currentHeight =
            HeightAfter(txConfNotifier.currentHeight, last'.tcnCalls)
       /\ \A i \in DOMAIN last'.tcnCalls :
            LET before == HeightAfter(txConfNotifier.currentHeight,
                                      SubSeq(last'.tcnCalls, 1, i - 1))
                call == last'.tcnCalls[i]
            IN /\ call[1] = "connect" => call[2] = before + 1
               /\ call[1] = "disconnect" => call[2] = before]_vars
\* a block was disconnected from a TxConfNotifier that had a registration,
\* and its height went one down
C21_Witness ==
    /\ last.op = "BlockDisconnected"
    /\ Len(last.tcnCalls) = 1
    /\ last.tcnCalls[1][1] = "disconnect"
    /\ txConfNotifier.currentHeight = last.tcnCalls[1][2] - 1
    /\ Tracked(txConfNotifier) # {}

\* C22: a BlockDisconnected event whose height differs from the notifier's
\* best height is ignored: best_block, the TxConfNotifier, both registries
\* and every subscriber queue are unchanged, and no backend call is made
\* (the step does not fail even when the backend's next call would).
C22_OutOfOrderDisconnectIgnored ==
    [][(/\ last'.op = "BlockDisconnected"
        /\ last'.item.Height # bestBlock.Height)
       => /\ UNCHANGED notifierVars
          /\ ~last'.failed
          /\ ~last'.err
          /\ last'.tcnCalls = <<>>
          /\ \A c \in EpochIds : last'.sent[c] = <<>>]_vars
\* a disconnect for another height than the notifier's reached it while a
\* subscriber was registered
C22_Witness ==
    /\ last.op = "BlockDisconnected"
    /\ last.item.Height # last.best0.Height
    /\ bestBlock = last.best0
    /\ blockEpochClients # {}

\* C23: handling a BlockDisconnected event at the notifier's best height h
\* sets best_block to (h - 1, the backend's hash at h - 1), calls
\* TxConfNotifier.disconnect_tip(h) (which takes it, or refuses it as out
\* of order), and enqueues no BlockEpoch to any epoch subscriber.
C23_DisconnectAtBestHeight ==
    [][(/\ last'.op = "BlockDisconnected"
        /\ last'.item.Height = bestBlock.Height)
       => /\ bestBlock'.Height = bestBlock.Height - 1
          /\ HasBlockAt(bestBlock.Height - 1)
                => bestBlock'.Hash = GetBlockHash(bestBlock.Height - 1)
          /\ \/ last'.tcnCalls = <<<<"disconnect", bestBlock.Height, NilHash>>>>
             \/ last'.err /\ last'.tcnCalls = <<>>
          /\ \A c \in EpochIds : last'.sent[c] = <<>>]_vars

\* C24: when a backend call fails while the dispatcher handles a
\* BlockConnected or a BlockDisconnected event, the event is skipped and the
\* loop keeps running: best_block (height and hash), the TxConfNotifier's
\* height and every subscriber queue are as they were before the event.
C24_FailedEventSkipped ==
    [][(/\ last'.op \in {"BlockConnected", "BlockDisconnected"}
        /\ last'.failed)
       => /\ bestBlock' = bestBlock
          /\ txConfNotifier'.currentHeight = txConfNotifier.currentHeight
          /\ epochQueue' = epochQueue
          /\ dispatcher' = "running"]_vars

\* how often e is in seq
CountOf(e, seq) == Cardinality({i \in DOMAIN seq : seq[i] = e})
\* the step's handler got connect_tip(H, h, txns) accepted for its block
ConnectedItem(l) ==
    /\ l.tcnCalls # <<>>
    /\ l.tcnCalls[Len(l.tcnCalls)] = <<"connect", l.item.Height, l.item.Hash>>

\* C25 (as the claim states it): handling BlockConnected(h, H) enqueues
\* BlockEpoch{h, H} exactly once to every registered epoch subscriber when
\* connect_tip(H, h, txns) succeeded, and to no subscriber when fetching the
\* block or connect_tip failed.
C25_EpochOnceAfterConnectTip ==
    [][last'.op = "BlockConnected"
       => \A c \in EpochIds :
            CountOf(Epoch(last'.item.Height, last'.item.Hash), last'.sent[c])
                = IF c \in blockEpochClients /\ ConnectedItem(last') THEN 1 ELSE 0]_vars

\* C25 (amended): the same while the notifier is not shutting down; once
\* quit is closed a subscriber gets the epoch at most once, and only after
\* connect_tip succeeded.
C25_EpochOnceAfterConnectTipWhileRunning ==
    [][last'.op = "BlockConnected"
       => \A c \in EpochIds :
            LET k == CountOf(Epoch(last'.item.Height, last'.item.Hash), last'.sent[c])
                due == IF c \in blockEpochClients /\ ConnectedItem(last') THEN 1 ELSE 0
            IN IF quit THEN k <= due ELSE k = due]_vars
\* two subscribers each got the epoch of a block the TxConfNotifier took
C25_Witness ==
    /\ last.op = "BlockConnected"
    /\ ~quit
    /\ ConnectedItem(last)
    /\ Cardinality(blockEpochClients) = 2
    /\ \A c \in blockEpochClients :
        CountOf(Epoch(last.item.Height, last.item.Hash), last.sent[c]) = 1


\* C26: for two block hashes A and B at the same height on two forks that
\* share an ancestor, the walker (every header lookup answering) returns the
\* height of the highest block that is on both forks, which is their own
\* height when A = B.
C26_WalkerFindsCommonAncestor ==
    \A A, B \in Blocks :
        Height(A) = Height(B)
        => LET r == getCommonBlockAncestorHeight(Work(0, {}), A, B)
           IN /\ ~r.err
              /\ r.ret = CommonAncestorHeight(A, B)
              /\ A = B => r.ret = Height(A)
\* a subscriber whose best block is on the other fork, two blocks above the
\* point where the forks part, registered and was caught up
C26_Witness ==
    /\ last.op = "RegisterBlockEpochNtfn"
    /\ last.item.given
    /\ ~last.failed
    /\ bestBlock.Hash # NilHash
    /\ last.item.Height = bestBlock.Height
    /\ CommonAncestorHeight(last.item.Hash, bestBlock.Hash) = bestBlock.Height - 2
    /\ last.sent[last.id] # <<>>


\* two blocks at the same height whose forks part reorgSafetyLimit + 1
\* blocks below them
DeepReorgHash == HashOf(1, ForkHeight + reorgSafetyLimit + 1)
DeepChainHash == HashOf(2, ForkHeight + reorgSafetyLimit + 1)

\* C27: the common-ancestor walk makes at most reorg_safety_depth
\* iterations (two header lookups each); for two forks that part deeper than
\* reorg_safety_depth it stops and returns an error (ReorgTooDeep).
C27_WalkBoundedBySafetyDepth ==
    LET r == getCommonBlockAncestorHeight(Work(0, {}), DeepReorgHash, DeepChainHash)
    IN /\ r.err
       /\ r.n <= 2 * reorgSafetyLimit + 1


\* the watched outpoints tx spends, and the place of op among tx's inputs
SpentWatched(tx) ==
    {op \in OutPoints : op \in Range(tx.inputs) /\ spendNotifications[op].present}
InputIndex(tx, op) == CHOOSE i \in DOMAIN tx.inputs : tx.inputs[i] = op

\* C28: when the dispatcher handles a RelevantTx, for every watched outpoint
\* one of its inputs spends, every subscriber registered for that outpoint
\* at that moment is sent the same SpendDetail and has its channel closed,
\* and the outpoint is removed from the registry; the registrations for the
\* outpoints no input spends, and their subscribers, are as they were.
C28_DispatchToAllOfOutpoint ==
    dispatcher = "running" =>
    \A tx \in RelevantTxs :
        LET s == handleRelevantTx(Work(0, {}), tx, bestBlock.Height)
        IN /\ s.crash = "running"
           /\ \A op \in SpentWatched(tx) :
                /\ ~s.sn[op].present
                /\ \A id \in spendNotifications[op].ids :
                    s.sp[id].spendChan =
                        [buf |-> <<SpendDetail(op, tx, InputIndex(tx, op) - 1,
                                       IF tx.block # 0 THEN tx.block
                                       ELSE bestBlock.Height + 1)>>,
                         closes |-> 1]
           /\ \A op \in OutPoints \ SpentWatched(tx) :
                s.sn[op] = spendNotifications[op]
           /\ \A id \in SpendIds :
                (\A op \in SpentWatched(tx) : id \notin spendNotifications[op].ids)
                => s.sp[id] = spendNtfn[id]
\* two subscribers of one outpoint were sent the same SpendDetail by one
\* RelevantTx, and the outpoint is gone from the registry
C28_Witness ==
    /\ last.op = "RelevantTx"
    /\ \E i, j \in SpendIds :
        /\ i # j
        /\ spendNtfn[i].targetOutpoint = spendNtfn[j].targetOutpoint
        /\ spendNtfn[i].targetOutpoint = last.id
        /\ Len(spendNtfn[i].spendChan.buf) = 1
        /\ spendNtfn[i].spendChan = spendNtfn[j].spendChan
        /\ spendNtfn[i].spendChan.closes = 1
        /\ ~spendNotifications[last.id].present
        /\ spendNtfn[i].calls = 0 /\ spendNtfn[j].calls = 0


\* C29: a cancellation of a registered (outpoint, spend_id) closes that
\* subscriber's channel and removes that id only: every other subscriber,
\* of the same outpoint or of another, stays registered with its channel as
\* it was, and a later RelevantTx spending the outpoint still sends each of
\* them the SpendDetail.
C29_CancelOnlyThatSubscription ==
    [][/\ (/\ last'.op = "SpendCancel"
           /\ last'.id \in spendNotifications[spendNtfn[last'.id].targetOutpoint].ids)
          => LET id == last'.id
                 op == spendNtfn[id].targetOutpoint
             IN /\ dispatcher' = "running"
                /\ spendNtfn'[id].spendChan.closes = spendNtfn[id].spendChan.closes + 1
                /\ spendNotifications' =
                      [spendNotifications EXCEPT ![op].ids = @ \ {id}]
                /\ \A j \in SpendIds \ {id} : spendNtfn'[j] = spendNtfn[j]
                /\ \A j \in spendNotifications'[op].ids :
                      ~IsClosed(spendNtfn'[j].spendChan)
       /\ last'.op = "RelevantTx"
          => \A j \in spendNotifications[last'.id].ids :
                /\ Len(spendNtfn'[j].spendChan.buf) = 1
                /\ spendNtfn'[j].spendChan.buf[1].SpentOutPoint = last'.id]_vars
\* one subscriber of an outpoint cancelled, and the other one was then sent
\* the SpendDetail
C29_Witness ==
    /\ last.op = "RelevantTx"
    /\ \E i, j \in SpendIds :
        /\ i # j
        /\ spendNtfn[i].targetOutpoint = last.id
        /\ spendNtfn[j].targetOutpoint = last.id
        /\ spendNtfn[i].calls >= 1
        /\ spendNtfn[i].spendChan = [buf |-> <<>>, closes |-> 1]
        /\ spendNtfn[j].calls = 0
        /\ Len(spendNtfn[j].spendChan.buf) = 1
        /\ spendNtfn[j].spendChan.closes = 1


\* the heights from..to in ascending order
HeightsFromTo(from, to) == [i \in 1..(IF to >= from THEN to - from + 1 ELSE 0) |-> from + i - 1]
\* where a rescan started at start ends: at the first block from start on
\* that spends the outpoint, at the backend's tip if there is none
RescanEnd(start, in) ==
    IF in.spentAt >= start /\ in.spentAt <= Height(chainTip)
    THEN in.spentAt ELSE Height(chainTip)
\* the blocks the calls of a RegisterSpendNtfn fetch, every call answering
RescanOf(op, heightHint, in) ==
    spendRegistered(OnSpendRegistration(Work(0, {}), spendClientCounter + 1, op),
                    op, heightHint, in).scanned
LowerOf(a, b) == IF a < b THEN a ELSE b

\* C30 (as the claim states it): when a spend registration finds its
\* outpoint absent from the UTXO set (every backend call answering, the
\* backend having a block at height_hint), the rescan starts at the lower of
\* the height the backend's transaction index reports and height_hint, and
\* goes on towards the backend's tip until a block spends the outpoint.
C30_RescanFromLowerOfIndexAndHint ==
    (dispatcher = "running" /\ spendClientCounter < MaxSpendClients) =>
    \A op \in OutPoints, heightHint \in 1..MaxHeight, in \in SpendAnswers :
        (~in.unspent /\ HasBlockAt(heightHint))
        => LET start == IF in.txindex THEN LowerOf(in.createdAt, heightHint)
                        ELSE heightHint
           IN RescanOf(op, heightHint, in) = HeightsFromTo(start, RescanEnd(start, in))

\* C30 (amended): the rescan starts at the height the backend's transaction
\* index reports for the outpoint's transaction when it reports one, and at
\* height_hint otherwise.
C30_RescanFromIndexElseHint ==
    (dispatcher = "running" /\ spendClientCounter < MaxSpendClients) =>
    \A op \in OutPoints, heightHint \in 1..MaxHeight, in \in SpendAnswers :
        (~in.unspent /\ (in.txindex \/ HasBlockAt(heightHint)))
        => LET start == IF in.txindex THEN in.createdAt ELSE heightHint
           IN RescanOf(op, heightHint, in) = HeightsFromTo(start, RescanEnd(start, in))
\* a registration whose outpoint was already spent was sent the SpendDetail
\* by its own rescan, which found the spending transaction at the tip
C30_Witness ==
    /\ last.op = "RegisterSpendNtfn"
    /\ ~last.failed
    /\ last.item.given
    /\ last.item.Height = Height(chainTip)
    /\ spendNtfn[last.id].event = "held"
    /\ Len(spendNtfn[last.id].spendChan.buf) = 1


\* C39: a RegisterSpendNtfn call that returned an error to its caller has
\* left no registration for its spend_id in the spend registry.
C39_NoRegistrationAfterError ==
    \A id \in SpendIds :
        (spendNtfn[id].event \in {"error", "shutdown"}
            /\ spendNtfn[id].targetOutpoint \in OutPoints)
        => id \notin spendNotifications[spendNtfn[id].targetOutpoint].ids


\* C37: the catch-up of a newly registered epoch subscriber puts epochs only
\* into that subscriber's queue; the step sends nothing to the subscribers
\* that were registered before it.
C37_CatchUpOnlyNewSubscriber ==
    last.op = "RegisterBlockEpochNtfn"
    => \A c \in EpochIds \ {last.id} : last.sent[c] = << >>


\* C36: whenever the dispatcher is idle between two events, the height of
\* best_block equals the TxConfNotifier's current height, after every
\* handled event, whether its backend calls answered or failed.
C36_BestHeightIsTcnHeight ==
    bestBlock.Height = txConfNotifier.currentHeight


\* ------------------------------------------------ missed-block catch-up
\* One chain that grows to CatchUpHeight while notifications are delivered
\* or missed, so that a catch-up over two missed blocks can fail after its
\* first block and a later block still arrives.
InitCatchUp ==
    /\ chainTip = HashOf(1, 0)
    /\ ntfnTip = chainTip
    /\ blockTxs = [b \in {HashOf(1, h) : h \in 0..CatchUpHeight} |-> <<>>]
    /\ InitNotifier
    /\ epochClientCounter = 0
    /\ spendClientCounter = 0

\* the backend's only chain grows by one block
BackendExtend ==
    /\ Height(chainTip) < CatchUpHeight
    /\ chainTip' = HashOf(1, Height(chainTip) + 1)
    /\ last' = Quiet("BackendExtend")
    /\ UNCHANGED <<ntfnTip, blockTxs, notifierVars, counterVars, quit, stopped>>

NextCatchUp ==
    \/ BackendExtend
    \/ MissedNtfn
    \/ BlockConnected
    \/ RegisterBlockEpochNtfn

SpecCatchUp == InitCatchUp /\ [][NextCatchUp]_vars

\* C38: when a missed-block catch-up has failed after replaying at least
\* one block (the TxConfNotifier is then above best_block), a later
\* BlockConnected whose backend calls are all answered delivers every
\* remaining block up to its own to the epoch subscribers and makes it the
\* best block: the notifier is not left unable to connect blocks.
C38_CatchUpRecovers ==
    [][(txConfNotifier.currentHeight > bestBlock.Height
            /\ last'.op = "BlockConnected" /\ ~last'.failed)
        => /\ bestBlock' = EpochOf(ntfnTip')
           /\ \A c \in blockEpochClients :
                last'.sent[c] = EpochsOf(ntfnTip', txConfNotifier.currentHeight,
                                         Height(ntfnTip'))]_vars


\* the notifier after a RegisterSpendNtfn whose backend calls all answer
SpendRegisteredOf(op, heightHint, in) ==
    spendRegistered(OnSpendRegistration(Work(0, {}), spendClientCounter + 1, op),
                    op, heightHint, in)

\* C31: a spend registration for an outpoint that was already spent at a
\* height h of the range its rescan covers (every backend call answering,
\* the submission not overtaken by shutdown) fetches the blocks from the
\* rescan's start up to h in ascending order and no block after h, and the
\* subscriber is returned its handle with exactly one SpendDetail on its
\* channel, whose spending height is h.
C31_RescanDeliversOneSpendAtHeight ==
    (dispatcher = "running" /\ spendClientCounter < MaxSpendClients) =>
    \A op \in OutPoints, heightHint \in 1..MaxHeight, in \in SpendAnswers :
        LET start == IF in.txindex THEN in.createdAt ELSE heightHint
            s == SpendRegisteredOf(op, heightHint, in)
            ch == s.sp[spendClientCounter + 1].spendChan
        IN (~in.unspent /\ ~in.viaQuit /\ (in.txindex \/ HasBlockAt(heightHint))
                /\ in.spentAt >= start /\ in.spentAt <= Height(chainTip))
           => /\ s.scanned = HeightsFromTo(start, in.spentAt)
              /\ s.ret = "handle"
              /\ Len(ch.buf) = 1
              /\ ch.buf[1].SpentOutPoint = op
              /\ ch.buf[1].SpendingHeight = in.spentAt
              /\ IsClosed(ch)
\* a subscriber registered with a hint below the spending block while the
\* backend knew no transaction index, and was sent the SpendDetail of the
\* tip block by its own rescan
C31_Witness ==
    /\ last.op = "RegisterSpendNtfn"
    /\ ~last.failed
    /\ last.item.given
    /\ last.item.Height = Height(chainTip)
    /\ spendNtfn[last.id].event = "held"
    /\ Len(spendNtfn[last.id].spendChan.buf) = 1
    /\ spendNtfn[last.id].spendChan.buf[1].SpendingHeight = Height(chainTip)
    /\ spendNtfn[last.id].spendChan.closes = 1
    /\ ~spendNotifications[spendNtfn[last.id].targetOutpoint].present


\* the first height from..to whose block on the backend's chain holds txid,
\* 0 if none does
FirstHolding(txid, from, to) ==
    LET hs == {h \in from..to : HasBlockAt(h) /\ txid \in Range(blockTxs[GetBlockHash(h)])}
    IN IF hs = {} THEN 0 ELSE CHOOSE h \in hs : \A k \in hs : h <= k
\* a registration as RegisterConfirmationsNtfn hands it to the dispatcher
ConfWork(r, txid, numConfs, heightHint) ==
    [Work(0, {}) EXCEPT !.ntfn[r] =
        [NoConfNtfn EXCEPT !.registered = TRUE, !.event = "held", !.txid = txid,
                           !.numConfs = numConfs, !.heightHint = heightHint]]

\* C32: when the transaction-index lookup of a confirmation registration
\* answers that it has no information on the transaction, the lookup is no
\* error: the blocks from height_hint to the current height are fetched in
\* ascending order until one holds the transaction, whose place is then the
\* answer; when none holds it the registration is still handed to the
\* TxConfNotifier, as not yet confirmed.
C32_NoTxInfoFallsBackToScan ==
    dispatcher = "running" =>
    \A r \in ConfIds, txid \in TxIds, numConfs \in 1..MaxConfs, heightHint \in 1..MaxHeight :
        confNtfn[r].event = "none" =>
        LET w == ConfWork(r, txid, numConfs, heightHint)
            tip == Height(chainTip)
            at == FirstHolding(txid, heightHint, tip)
            d == historicalConfDetails(Rpc(w), txid, heightHint, tip, FALSE)
            s == OnConfRegistration(w, r, FALSE)
        IN /\ ~d.err
           /\ d.scanned = HeightsFromTo(heightHint, IF at = 0 THEN tip ELSE at)
           /\ d.ret = IF at = 0 THEN NotFound ELSE Found(GetBlockHash(at), at, txid)
           /\ at = 0 => /\ r \in s.tcn.ntfns[txid]
                        /\ ~s.ntfn[r].seen
                        /\ s.ev[r] = confEvent[r]
\* a registration was taken as not yet confirmed after the scan from its
\* height_hint to the tip found its transaction in none of the blocks: the
\* transaction sits in a block below the hint
C32_Witness ==
    /\ last.op = "RegisterConfirmationsNtfn"
    /\ ~last.failed
    /\ \E r \in ConfIds :
        /\ last.id = r
        /\ confNtfn[r].registered /\ ~confNtfn[r].seen
        /\ r \in txConfNotifier.ntfns[confNtfn[r].txid]
        /\ confNtfn[r].heightHint <= Height(chainTip)
        /\ TxBlock(confNtfn[r].txid) # NilHash
        /\ Height(TxBlock(confNtfn[r].txid)) < confNtfn[r].heightHint
        /\ confEvent[r] = NoConfEvent


\* C33: for every epoch subscriber, what has been put on its channel is a
\* prefix of what the dispatcher put into its queue: the relay neither
\* reorders, nor repeats, nor skips an epoch.
C33_ChannelIsPrefixOfQueue ==
    \A c \in EpochIds : IsPrefix(epochReg[c].epochChan.buf, epochQueue[c])
\* a subscriber's relay has forwarded two different epochs, in the order
\* the dispatcher queued them
C33_Witness ==
    \E c \in EpochIds :
        /\ Len(epochReg[c].epochChan.buf) = 2
        /\ epochReg[c].epochChan.buf = epochQueue[c]
        /\ epochQueue[c][1].Height + 1 = epochQueue[c][2].Height


Registries == <<bestBlock, txConfNotifier, blockEpochClients, spendNotifications>>

\* C35: the registries and best_block are never used by two tasks at once:
\* they change only in a step of the running dispatcher, and Stop goes
\* through them (to close the channels of what is still registered) only
\* once the dispatcher has exited.
C35_OneTaskAtATime ==
    [][/\ Registries' # Registries => dispatcher = "running"
       /\ (stopped # "done" /\ stopped' = "done") => dispatcher = "exited"]_vars
\* Stop has gone through registries that still held a spend and an epoch
\* subscriber, after the dispatcher had exited, and closed their channels
C35_Witness ==
    /\ stopped = "done"
    /\ dispatcher = "exited"
    /\ \E o \in OutPoints, id \in SpendIds :
        /\ spendNotifications[o].present /\ id \in spendNotifications[o].ids
        /\ IsClosed(spendNtfn[id].spendChan)
    /\ \E c \in blockEpochClients : IsClosed(epochReg[c].epochChan)

====
